---- MODULE Spec2Model ----
(***************************************************************************)
(* A model of the ECS runtime of game-engine-2 (src/src/engine/world.ts,   *)
(* with the type registry that lives at the end of src/src/engine/graph.ts)*)
(* The World built by createWorld() is the state; every method of the      *)
(* World object is an operator over that state and an action that applies  *)
(* it to inputs drawn from small sets.                                     *)
(***************************************************************************)
EXTENDS Integers, Sequences, FiniteSets, TLC

\* ------------------------------------------------------------------ bounds
\* Number of identifiers createEntityId can hand out in one run.
MaxIds == 2

\* Number of subscribe calls in one run.
MaxSubscribes == 3

\* Number of addSystem calls in one run, and the last clock reading (ms).
MaxSystems == 2
MaxNow == 6

\* Graph: the node identifiers passed to the mutating methods and the
\* number of edges held at once; the same for the graphs that are traversed.
MaxNodes == 2
MaxEdges == 2
MaxTraversalNodes == 3
MaxTraversalEdges == 3

\* ------------------------------------------------------------- value space
\* EntityId values a caller can pass: the identifiers spawn can return; one
\* that has not been returned yet is an unknown (never spawned) entity.
Ids == 1..MaxIds
NoEntity == 0

\* The names of the component types in use (ComponentType.name).
CompNames == {"Position", "Velocity"}
NoComp == "-"

\* JavaScript's two nullish values and one ordinary component value. An
\* attach without a value passes undefined. set stores whatever it is given,
\* null like any other value, so its inputs keep one nullish value.
Undefined == "undefined"
Null == "null"
Values == {"a", Null, Undefined}
SetValues == {"a", Undefined}

\* ComponentType.default(): the factory of each component type.
Default(t) == IF t = "Position" THEN "defaultPosition" ELSE "defaultVelocity"

\* The lists of component types passed to query(...requiredComponents).
QueryLists ==
  {<<>>} \cup {<<t>> : t \in CompNames}
         \cup {<<t, u>> : t \in CompNames, u \in CompNames}

\* Signal names (SignalType.name), handler functions and payloads.
SignalNames == {"S1", "S2"}
Handlers == {"h1", "h2"}
Payloads == {"p1", "p2"}
NoHandler == "-"

\* System.name and System.frequency (Hz); NoCap is a system without a
\* frequency. The intervals 1000 / frequency are 4 ms and 2 ms.
SystemNames == {"A", "B"}
NoCap == -1
Frequencies == {NoCap, 250, 500}
MsPerSecond == 1000
\* The dt values passed to tick.
Dts == {16, 33}
\* History: a system that has not been executed yet.
Never == -1

\* Resource names (ResourceType.name), ResourceType.default() and the values
\* passed to setResource.
ResourceNames == {"Time", "Input"}
ResDefault(n) == IF n = "Time" THEN "defaultTime" ELSE "defaultInput"
ResValues == {"x", "y", Undefined}
\* Cap of the history counter factoryCalls.
MaxFactoryCalls == 2

\* createGraph<T>(): the entities used as nodes and the edge data T.
NodeIds == 1..MaxNodes
TraversalIds == 1..MaxTraversalNodes
EdgeData == {"d1", "d2"}

\* Serialization. The values isSerializable tells apart: plain values, a
\* function, a symbol, a Map, an HTMLElement, and arrays and objects around
\* them.
ObjectValues ==
  {Null, "Map", "HTMLElement", "[a]", "[function]", "{k: a}",
   "{k: [function]}", "{k: Map}"}
\* The values attach, set and setResource are called with before a snapshot.
SnapValues == {"a", Null, "{k: [function]}"}
SnapResourceValues == {"x", "function"}
\* The registries and options the snapshot calls are made with.
AllComponents == <<"Position", "Velocity">>
ComponentRegistries == {<<"Position">>, AllComponents}
AllResources == <<"Time", "Input">>
ResourceRegistries == {<<"Time">>, AllResources}
\* SerializeOptions: includeResources may be absent, and [] is a list.
NoList == {"-"}
\* KeyboardEvent.code, MouseEvent.button and the client coordinates of the
\* events delivered.
KeyCodes == {"KeyW", "Space"}
Buttons == {0, 2}
Coordinates == {0, 5}
NoKey == "-"
IncludeLists == {NoList, {}, {"Time"}}
ExcludeLists == {{}, {"Time"}}
\* The entities of the worlds that are serialized, and the entries of the
\* snapshots that are deserialized.
MaxSnapshotEntities == 1
MaxSnapshotEntries == 2

VARIABLES
  entities,     \* Set<EntityId> in insertion order: a duplicate-free sequence
  components,   \* Map<string, Map<EntityId, unknown>>
  nextId,       \* the next identifier createEntityId returns
  last,         \* the last call made on the world, with what it returned
  signals,      \* Map<string, Set<handler>>, each Set in insertion order
  closures,     \* the unsubscribe closures returned so far, in call order:
                \* each captures its signal's Set and its handler
  called,       \* history: the closures that have been called at least once
  emission,     \* the emit call in progress or last finished
  systems,      \* System[]: the registered systems, in registration order
  systemLastRun,\* Map<string, number>: last run time by system name
  clock,        \* the latest value performance.now() has returned
  lastExec,     \* history: per registered system, the time it last executed
  ran,          \* history: the run(world, dt) calls of the last tick, in order
  resources,    \* Map<string, unknown>
  factoryCalls, \* history: per resource name, the calls of default() so far
  assigned,     \* history: per resource name, the last value setResource got
  setFirst,     \* history: the names whose first call was a setResource
  nodes,        \* graph: Set<EntityId> in insertion order
  outgoingEdges,\* graph: Map<EntityId, Map<EntityId, T>>, from -> to -> data;
                \* each inner Map in insertion order, a sequence of <<to, data>>
  incomingEdges,\* graph: Map<EntityId, Set<EntityId>>, to -> the from nodes,
                \* each Set in insertion order
  lastGraph,    \* the last call made on the graph, with what it returned
  lastSnap,     \* the last serialization call, with what it returned
  input,        \* the InputState the Input resource holds
  lastInput     \* the last event or call on the input state, with the tick
                \* in progress and the keys pressed since InputSystem ran

ecsVars == <<entities, components, nextId>>
sigVars == <<signals, closures, called, emission>>
schedVars == <<systems, systemLastRun, clock, lastExec, ran>>
resVars == <<resources, factoryCalls, assigned, setFirst>>
graphVars == <<nodes, outgoingEdges, incomingEdges>>
inputVars == <<input, lastInput>>
vars == <<entities, components, nextId, last, signals, closures, called, emission,
          systems, systemLastRun, clock, lastExec, ran,
          resources, factoryCalls, assigned, setFirst,
          nodes, outgoingEdges, incomingEdges, lastGraph, lastSnap,
          input, lastInput>>

\* ------------------------------------------------------- Map / Set helpers
Range(s) == {s[i] : i \in 1..Len(s)}

EmptyMap == [x \in {} |-> Undefined]

MapHas(m, k) == k \in DOMAIN m

MapGet(m, k) == IF k \in DOMAIN m THEN m[k] ELSE Undefined

MapSet(m, k, v) == [x \in DOMAIN m \cup {k} |-> IF x = k THEN v ELSE m[x]]

MapDelete(m, k) == [x \in DOMAIN m \ {k} |-> m[x]]

\* Set.prototype.add / delete / has on an insertion-ordered set.
SetHas(s, x) == x \in Range(s)

SetAdd(s, x) == IF SetHas(s, x) THEN s ELSE Append(s, x)

SetDelete(s, x) == SelectSeq(s, LAMBDA y : y # x)

\* value ?? fallback
Nullish(v, fallback) == IF v \in {Null, Undefined} THEN fallback ELSE v

\* ------------------------------------------------------------- operations
\* createEntityId(): crypto.randomUUID(), an identifier never returned before.
createEntityId == nextId

spawn(ents, id) == SetAdd(ents, id)

exists(ents, e) == SetHas(ents, e)

despawn_keepStores(ents, comps, e) ==
  [entities |-> SetDelete(ents, e), components |-> comps]

despawn_toggles(ents, comps, e) ==
  IF SetHas(ents, e)
    THEN [entities |-> SetDelete(ents, e),
          components |-> [t \in DOMAIN comps |-> MapDelete(comps[t], e)]]
    ELSE [entities |-> Append(ents, e), components |-> comps]

despawn(ents, comps, e) ==
  [entities |-> SetDelete(ents, e),
   components |-> [t \in DOMAIN comps |-> MapDelete(comps[t], e)]]

attach_alwaysDefault(ents, comps, e, t, v) ==
  IF ~SetHas(ents, e) THEN comps
  ELSE LET store == IF MapHas(comps, t) THEN comps[t] ELSE EmptyMap
       IN MapSet(comps, t, MapSet(store, e, Default(t)))

attach_noAliveCheck(ents, comps, e, t, v) ==
  LET store == IF MapHas(comps, t) THEN comps[t] ELSE EmptyMap
  IN MapSet(comps, t, MapSet(store, e, Nullish(v, Default(t))))

attach(ents, comps, e, t, v) ==
  IF ~SetHas(ents, e) THEN comps
  ELSE LET store == IF MapHas(comps, t) THEN comps[t] ELSE EmptyMap
       IN MapSet(comps, t, MapSet(store, e, Nullish(v, Default(t))))

detach_dropsStore(comps, e, t) == MapDelete(comps, t)

detach(comps, e, t) ==
  IF MapHas(comps, t) THEN MapSet(comps, t, MapDelete(comps[t], e)) ELSE comps

get(comps, e, t) ==
  IF MapHas(comps, t) THEN MapGet(comps[t], e) ELSE Undefined

set_upsert(comps, e, t, v) ==
  LET store == IF MapHas(comps, t) THEN comps[t] ELSE EmptyMap
  IN MapSet(comps, t, MapSet(store, e, v))

set(comps, e, t, v) ==
  IF MapHas(comps, t) /\ MapHas(comps[t], e)
  THEN MapSet(comps, t, MapSet(comps[t], e, v))
  ELSE comps

has(comps, e, t) ==
  IF MapHas(comps, t) THEN MapHas(comps[t], e) ELSE FALSE

\* The inner loop of query: matches stays true until a required component
\* is missing, and the loop breaks there.
RECURSIVE queryMatches(_, _, _, _)
queryMatches(comps, e, required, i) ==
  IF i > Len(required) THEN TRUE
  ELSE IF ~has(comps, e, required[i]) THEN FALSE
  ELSE queryMatches(comps, e, required, i + 1)

RECURSIVE queryLoop(_, _, _, _, _)
queryLoop(ents, comps, required, i, result) ==
  IF i > Len(ents) THEN result
  ELSE queryLoop(ents, comps, required, i + 1,
                 IF queryMatches(comps, ents[i], required, 1)
                 THEN Append(result, ents[i]) ELSE result)

query_any(ents, comps, required) ==
  SelectSeq(ents, LAMBDA e : \E i \in 1..Len(required) : has(comps, e, required[i]))

query(ents, comps, required) == queryLoop(ents, comps, required, 1, <<>>)

\* ------------------------------------------------------------ the record
\* of the last call: op, its arguments, what the caller could observe just
\* before it (pre) and what it returned (ret).
Call(op, e, t, v, ts, pre, ret) ==
  [op |-> op, e |-> e, t |-> t, v |-> v, ts |-> ts, pre |-> pre, ret |-> ret]

NoCall == Call("none", NoEntity, NoComp, Undefined, <<>>, {}, <<>>)

TypesOf(comps, e) == {t \in DOMAIN comps : has(comps, e, t)}

\* ----------------------------------------------------------------- Init
EcsInit ==
  /\ entities = <<>>
  /\ components = EmptyMap
  /\ nextId = 1
  /\ last = NoCall

\* --------------------------------------------------------------- actions
\* No call record is held: every call is made from the world the calls
\* before it left, and its record is read before the next call.
Returned == last = NoCall

Spawn ==
  /\ Returned
  /\ nextId <= MaxIds
  /\ entities' = spawn(entities, createEntityId)
  /\ nextId' = nextId + 1
  /\ last' = Call("spawn", createEntityId, NoComp, Undefined, <<>>, {}, <<>>)
  /\ UNCHANGED <<components, sigVars, schedVars, resVars,
                 graphVars, lastGraph, lastSnap, inputVars>>

Despawn ==
  /\ Returned
  /\ \E e \in Ids :
         LET r == despawn(entities, components, e) IN
         /\ entities' = r.entities
         /\ components' = r.components
         /\ last' = Call("despawn", e, NoComp, Undefined, <<>>,
                         TypesOf(components, e), <<>>)
         /\ UNCHANGED <<nextId, sigVars, schedVars, resVars,
                      graphVars, lastGraph, lastSnap, inputVars>>

Attach ==
  /\ Returned
  /\ \E e \in Ids, t \in CompNames, v \in Values :
         /\ components' = attach(entities, components, e, t, v)
         /\ last' = Call("attach", e, t, v, <<>>, {}, <<>>)
         /\ UNCHANGED <<entities, nextId, sigVars, schedVars, resVars,
                      graphVars, lastGraph, lastSnap, inputVars>>

Detach ==
  /\ Returned
  /\ \E e \in Ids, t \in CompNames :
         /\ components' = detach(components, e, t)
         /\ last' = Call("detach", e, t, Undefined, <<>>, {}, <<>>)
         /\ UNCHANGED <<entities, nextId, sigVars, schedVars, resVars,
                      graphVars, lastGraph, lastSnap, inputVars>>

Set ==
  /\ Returned
  /\ \E e \in Ids, t \in CompNames, v \in SetValues :
         /\ components' = set(components, e, t, v)
         /\ last' = Call("set", e, t, v, <<>>, {}, <<>>)
         /\ UNCHANGED <<entities, nextId, sigVars, schedVars, resVars,
                      graphVars, lastGraph, lastSnap, inputVars>>

Query ==
  /\ Returned
  /\ \E ts \in QueryLists :
         /\ last' = Call("query", NoEntity, NoComp, Undefined, ts, {},
                         query(entities, components, ts))
         /\ UNCHANGED <<ecsVars, sigVars, schedVars, resVars,
                      graphVars, lastGraph, lastSnap, inputVars>>

\* The caller goes on to its next call.
NextCall ==
  /\ ~Returned
  /\ last' = NoCall
  /\ UNCHANGED <<ecsVars, sigVars, schedVars, resVars, graphVars, lastGraph,
                 lastSnap, inputVars>>

EcsNext == Spawn \/ Despawn \/ Attach \/ Detach \/ Set \/ Query \/ NextCall

\* ---------------------------------------------------------------- signals
\* Set.prototype.delete while a for-of loop over the Set has already passed
\* pos entries: the iterator keeps its place among the entries that remain.
PosAfterDelete(s, x, pos) ==
  IF \E i \in 1..pos : i <= Len(s) /\ s[i] = x THEN pos - 1 ELSE pos

subscribe(sigs, s, h) ==
  LET subscribers == IF MapHas(sigs, s) THEN sigs[s] ELSE <<>>
  IN MapSet(sigs, s, SetAdd(subscribers, h))

\* The closure returned by subscribe: subscribers.delete(handler).
unsubscribe(sigs, c) == MapSet(sigs, c.sig, SetDelete(sigs[c.sig], c.h))

\* emit's loop, one handler call at a time: the loop ends when the iterator
\* has passed every entry the Set holds at that time.
emitHasNext(sigs, em) == em.pos < Len(sigs[em.sig])

emitNext(sigs, em) == sigs[em.sig][em.pos + 1]

\* The handlers of signal s that have been unsubscribed: a closure for them
\* has been called and none of their closures is still uncalled.
Unsubscribed(cls, cld, s) ==
  {h \in Handlers :
     /\ \E c \in cld : cls[c].sig = s /\ cls[c].h = h
     /\ \A c \in 1..Len(cls) : (cls[c].sig = s /\ cls[c].h = h) => c \in cld}

\* atCall and gone are history: the subscribers, in order, and the
\* unsubscribed handlers at the time emit was called; invoked lists the
\* handler calls the emit has made, each with the payload it passed.
NoEmission ==
  [active |-> FALSE, done |-> FALSE, sig |-> "-", payload |-> "-", pos |-> 0,
   running |-> NoHandler, atCall |-> <<>>, gone |-> {}, invoked |-> <<>>]

SigInit ==
  /\ signals = EmptyMap
  /\ closures = <<>>
  /\ called = {}
  /\ emission = NoEmission

\* A handler body may call subscribe and the closures it holds; outside an
\* emit the caller is the application. Handlers do not call emit themselves:
\* one emission is in progress at a time.
MayCall == ~emission.active \/ emission.running # NoHandler

Subscribe ==
  \E s \in SignalNames, h \in Handlers :
    /\ MayCall
    /\ Len(closures) < MaxSubscribes
    /\ signals' = subscribe(signals, s, h)
    /\ closures' = Append(closures, [sig |-> s, h |-> h])
    /\ UNCHANGED <<called, emission, ecsVars, last, schedVars, resVars,
                 graphVars, lastGraph, lastSnap, inputVars>>

Unsubscribe ==
  \E c \in 1..Len(closures) :
    /\ MayCall
    /\ signals' = unsubscribe(signals, closures[c])
    /\ called' = called \cup {c}
    /\ emission' =
         IF emission.active /\ emission.sig = closures[c].sig
         THEN [emission EXCEPT
                 !.pos = PosAfterDelete(signals[closures[c].sig], closures[c].h, @)]
         ELSE emission
    /\ UNCHANGED <<closures, ecsVars, last, schedVars, resVars,
                 graphVars, lastGraph, lastSnap, inputVars>>

\* emit(signal, payload) is called: without a subscriber Set it returns at once.
Emit ==
  \E s \in SignalNames, p \in Payloads :
    /\ ~emission.active
    /\ emission' =
         [active |-> MapHas(signals, s), done |-> ~MapHas(signals, s),
          sig |-> s, payload |-> p, pos |-> 0, running |-> NoHandler,
          atCall |-> IF MapHas(signals, s) THEN signals[s] ELSE <<>>,
          gone |-> Unsubscribed(closures, called, s),
          invoked |-> <<>>]
    /\ UNCHANGED <<signals, closures, called, ecsVars, last, schedVars, resVars,
                 graphVars, lastGraph, lastSnap, inputVars>>

\* The loop takes the next entry and calls handler(payload).
EmitInvoke ==
  /\ emission.active
  /\ emitHasNext(signals, emission)
  /\ emission' =
       [emission EXCEPT
          !.pos = @ + 1,
          !.running = emitNext(signals, emission),
          !.invoked = Append(@, <<emitNext(signals, emission), emission.payload>>)]
  /\ UNCHANGED <<signals, closures, called, ecsVars, last, schedVars, resVars,
                 graphVars, lastGraph, lastSnap, inputVars>>

\* The last handler has returned and the iterator is exhausted: emit returns.
EmitReturn ==
  /\ emission.active
  /\ ~emitHasNext(signals, emission)
  /\ emission' = [emission EXCEPT !.active = FALSE, !.done = TRUE,
                                  !.running = NoHandler]
  /\ UNCHANGED <<signals, closures, called, ecsVars, last, schedVars, resVars,
                 graphVars, lastGraph, lastSnap, inputVars>>

SigNext == Subscribe \/ Unsubscribe \/ Emit \/ EmitInvoke \/ EmitReturn

\* ---------------------------------------------------------------- systems
\* now - lastRun < 1000 / frequency, for a positive frequency, without the
\* division.
tooEarly(nowMs, lastRun, frequency) ==
  (nowMs - lastRun) * frequency < MsPerSecond

\* tick's loop from system i on: st.systemLastRun is the map so far and
\* st.ran the run(world, dt) calls made so far.
RECURSIVE tickLoop(_, _, _, _, _)
tickLoop(syss, nowMs, dt, i, st) ==
  IF i > Len(syss) THEN st
  ELSE LET system == syss[i]
           lastRun == MapGet(st.systemLastRun, system.name)
       IN IF system.frequency # NoCap /\ tooEarly(nowMs, lastRun, system.frequency)
          THEN tickLoop(syss, nowMs, dt, i + 1, st)
          ELSE tickLoop(syss, nowMs, dt, i + 1,
                 [systemLastRun |->
                    IF system.frequency # NoCap
                    THEN MapSet(st.systemLastRun, system.name, nowMs)
                    ELSE st.systemLastRun,
                  ran |-> Append(st.ran, [system |-> i, dt |-> dt])])

tick_lastRegisteredFirst(syss, lastRuns, nowMs, dt) ==
  LET r == tickLoop(syss, nowMs, dt, 1, [systemLastRun |-> lastRuns, ran |-> <<>>])
  IN [r EXCEPT !.ran = [k \in 1..Len(r.ran) |-> r.ran[Len(r.ran) + 1 - k]]]

tick(syss, lastRuns, nowMs, dt) ==
  tickLoop(syss, nowMs, dt, 1, [systemLastRun |-> lastRuns, ran |-> <<>>])

addSystem(syss, lastRuns, system) ==
  [systems |-> Append(syss, system),
   systemLastRun |-> MapSet(lastRuns, system.name, 0)]

\* The systems the last tick executed.
Executed(r) == {r[i].system : i \in 1..Len(r)}

SchedInit ==
  /\ systems = <<>>
  /\ systemLastRun = EmptyMap
  /\ clock = 0
  /\ lastExec = <<>>
  /\ ran = <<>>

AddSystem ==
  \E n \in SystemNames, f \in Frequencies :
    LET r == addSystem(systems, systemLastRun, [name |-> n, frequency |-> f]) IN
    /\ Len(systems) < MaxSystems
    /\ systems' = r.systems
    /\ systemLastRun' = r.systemLastRun
    /\ lastExec' = Append(lastExec, Never)
    /\ last' = Call("addSystem", NoEntity, n, Undefined, <<>>, {}, <<>>)
    /\ UNCHANGED <<clock, ran, ecsVars, sigVars, resVars, graphVars, lastGraph, lastSnap, inputVars>>

\* tick(dt): performance.now() is read once; the clock never goes back.
\* The bodies of system.run do not register systems or call tick.
Tick ==
  \E nowMs \in clock..MaxNow, dt \in Dts :
    LET r == tick(systems, systemLastRun, nowMs, dt) IN
    /\ clock' = nowMs
    /\ systemLastRun' = r.systemLastRun
    /\ ran' = r.ran
    /\ lastExec' = [i \in 1..Len(systems) |->
                      IF i \in Executed(r.ran) THEN nowMs ELSE lastExec[i]]
    /\ last' = Call("tick", NoEntity, NoComp, dt, <<>>, {}, <<>>)
    /\ UNCHANGED <<systems, ecsVars, sigVars, resVars, graphVars, lastGraph, lastSnap, inputVars>>

SchedNext == AddSystem \/ Tick

\* A clock that advances without bound, kept in a bounded window: tick
\* compares only now - lastRun with the interval, so once performance.now()
\* has passed MaxNow every timestamp is moved back by the excess, and a
\* timestamp that would fall below 0 stays at 0, which is at least the
\* longest interval before any later reading of the clock.
rebase(t, nowMs) ==
  IF t = Never \/ nowMs <= MaxNow THEN t
  ELSE IF t - (nowMs - MaxNow) < 0 THEN 0 ELSE t - (nowMs - MaxNow)

\* tick(dt) at a reading of performance.now() later than the one before.
TickLater ==
  \E nowMs \in (clock + 1)..(clock + MaxNow), dt \in Dts :
    LET r == tick(systems, systemLastRun, nowMs, dt) IN
    /\ clock' = rebase(nowMs, nowMs)
    /\ systemLastRun' = [n \in DOMAIN r.systemLastRun |->
                           rebase(r.systemLastRun[n], nowMs)]
    /\ ran' = r.ran
    /\ lastExec' = [i \in 1..Len(systems) |->
                      IF i \in Executed(r.ran) THEN rebase(nowMs, nowMs)
                      ELSE rebase(lastExec[i], nowMs)]
    /\ last' = Call("tick", NoEntity, NoComp, Undefined, <<>>, {}, <<>>)
    /\ UNCHANGED <<systems, ecsVars, sigVars, resVars, graphVars, lastGraph, lastSnap, inputVars>>

SchedFairNext == AddSystem \/ TickLater

\* ------------------------------------------------------------- resources
\* getResource(resource): the value stored under resource.name, after
\* storing resource.default() when the name has no entry. invoked tells
\* whether default() was called.
getResource_alwaysDefault(res, name) ==
  [resources |-> MapSet(res, name, ResDefault(name)),
   ret |-> ResDefault(name),
   invoked |-> TRUE]

getResource(res, name) ==
  LET stored == IF ~MapHas(res, name)
                  THEN MapSet(res, name, ResDefault(name))
                  ELSE res
  IN [resources |-> stored,
      ret |-> MapGet(stored, name),
      invoked |-> ~MapHas(res, name)]

\* setResource(resource, value)
setResource(res, name, value) == MapSet(res, name, value)

\* History: the names getResource or setResource has been called with.
Touched == {n \in ResourceNames : factoryCalls[n] > 0} \cup DOMAIN assigned

ResInit ==
  /\ resources = EmptyMap
  /\ factoryCalls = [n \in ResourceNames |-> 0]
  /\ assigned = EmptyMap
  /\ setFirst = {}

GetResource ==
  \E n \in ResourceNames :
    LET r == getResource(resources, n) IN
    /\ factoryCalls[n] < MaxFactoryCalls
    /\ resources' = r.resources
    /\ factoryCalls' = [factoryCalls EXCEPT
                          ![n] = IF r.invoked THEN @ + 1 ELSE @]
    /\ last' = Call("getResource", NoEntity, n, Undefined, <<>>, {}, r.ret)
    /\ UNCHANGED <<assigned, setFirst, ecsVars, sigVars, schedVars, graphVars, lastGraph, lastSnap, inputVars>>

SetResource ==
  \E n \in ResourceNames, v \in ResValues :
    /\ resources' = setResource(resources, n, v)
    /\ assigned' = MapSet(assigned, n, v)
    /\ setFirst' = IF n \in Touched THEN setFirst ELSE setFirst \cup {n}
    /\ last' = Call("setResource", NoEntity, n, v, <<>>, {}, <<>>)
    /\ UNCHANGED <<factoryCalls, ecsVars, sigVars, schedVars, graphVars, lastGraph, lastSnap, inputVars>>

ResNext == GetResource \/ SetResource

\* ----------------------------------------------------------------- graph
\* A Map<EntityId, T> in insertion order: a sequence of <<key, value>>
\* with pairwise different keys.
OKeys(m) == [i \in 1..Len(m) |-> m[i][1]]

OHas(m, k) == \E i \in 1..Len(m) : m[i][1] = k

OGet(m, k) ==
  IF OHas(m, k) THEN m[CHOOSE i \in 1..Len(m) : m[i][1] = k][2] ELSE Undefined

\* Map.set keeps the position of a key that is already present.
OSet(m, k, v) ==
  IF OHas(m, k)
    THEN [i \in 1..Len(m) |-> IF m[i][1] = k THEN <<k, v>> ELSE m[i]]
    ELSE Append(m, <<k, v>>)

ODelete(m, k) == SelectSeq(m, LAMBDA p : p[1] # k)

\* The graph object: the three collections createGraph closes over.
Graph(ns, out, inc) ==
  [nodes |-> ns, outgoingEdges |-> out, incomingEdges |-> inc]

EmptyGraph == Graph(<<>>, EmptyMap, EmptyMap)

\* outgoingEdges.get(from) / incomingEdges.get(to), empty when absent.
OutOf(g, from) ==
  IF MapHas(g.outgoingEdges, from) THEN g.outgoingEdges[from] ELSE <<>>

InOf(g, to) ==
  IF MapHas(g.incomingEdges, to) THEN g.incomingEdges[to] ELSE <<>>

addNode(g, entity) == [g EXCEPT !.nodes = SetAdd(@, entity)]

\* removeNode(entity): the node, its outgoing edges (with their entries in
\* the incoming index), the edges of every other node that lead to it, and
\* its entry in the incoming index.
removeNode_keepIncomingIndex(g, entity) ==
  LET out1 == MapDelete(g.outgoingEdges, entity)
  IN Graph(SetDelete(g.nodes, entity),
           [f \in DOMAIN out1 |-> ODelete(out1[f], entity)],
           MapDelete(g.incomingEdges, entity))

removeNode(g, entity) ==
  LET targets == IF MapHas(g.outgoingEdges, entity)
                   THEN Range(OKeys(g.outgoingEdges[entity]))
                   ELSE {}
      inc1 == [t \in DOMAIN g.incomingEdges |->
                 IF t \in targets
                   THEN SetDelete(g.incomingEdges[t], entity)
                   ELSE g.incomingEdges[t]]
      out1 == MapDelete(g.outgoingEdges, entity)
  IN Graph(SetDelete(g.nodes, entity),
           [f \in DOMAIN out1 |-> ODelete(out1[f], entity)],
           MapDelete(inc1, entity))

hasNode(g, entity) == SetHas(g.nodes, entity)

\* addEdge(from, to, data): both nodes are added, the edge is stored under
\* from (replacing the data of an edge already there) and from is added to
\* the incoming set of to.
addEdge_noAutoNodes(g, from, to, data) ==
  Graph(g.nodes,
        MapSet(g.outgoingEdges, from, OSet(OutOf(g, from), to, data)),
        MapSet(g.incomingEdges, to, SetAdd(InOf(g, to), from)))

addEdge_multiEdge(g, from, to, data) ==
  Graph(SetAdd(SetAdd(g.nodes, from), to),
        MapSet(g.outgoingEdges, from, Append(OutOf(g, from), <<to, data>>)),
        MapSet(g.incomingEdges, to, Append(InOf(g, to), from)))

addEdge(g, from, to, data) ==
  Graph(SetAdd(SetAdd(g.nodes, from), to),
        MapSet(g.outgoingEdges, from, OSet(OutOf(g, from), to, data)),
        MapSet(g.incomingEdges, to, SetAdd(InOf(g, to), from)))

\* removeEdge(from, to): optional chaining on both indexes.
removeEdge_keepsIncomingIndex(g, from, to) ==
  Graph(g.nodes,
        IF MapHas(g.outgoingEdges, from)
          THEN MapSet(g.outgoingEdges, from, ODelete(g.outgoingEdges[from], to))
          ELSE g.outgoingEdges,
        g.incomingEdges)

removeEdge(g, from, to) ==
  Graph(g.nodes,
        IF MapHas(g.outgoingEdges, from)
          THEN MapSet(g.outgoingEdges, from, ODelete(g.outgoingEdges[from], to))
          ELSE g.outgoingEdges,
        IF MapHas(g.incomingEdges, to)
          THEN MapSet(g.incomingEdges, to, SetDelete(g.incomingEdges[to], from))
          ELSE g.incomingEdges)

hasEdge(g, from, to) == OHas(OutOf(g, from), to)

\* edges(): one {from, to, data} per entry of the outgoing index. The order
\* of the outer Map only fixes the order of this list, which no operation
\* reads, so the model keeps the outer Map unordered and the list as a set.
edges(g) ==
  UNION {{[from |-> f, to |-> g.outgoingEdges[f][i][1],
           data |-> g.outgoingEdges[f][i][2]] :
            i \in 1..Len(g.outgoingEdges[f])} : f \in DOMAIN g.outgoingEdges}

\* getEdge(from, to): undefined when the pair has no entry.
getEdge(g, from, to) ==
  LET data == OGet(OutOf(g, from), to)
  IN IF data = Undefined /\ ~hasEdge(g, from, to)
       THEN Undefined
       ELSE [from |-> from, to |-> to, data |-> data]

\* outgoing(node) / incoming(node): one edge per entry of the node's maps
outgoing(g, node) ==
  [i \in 1..Len(OutOf(g, node)) |->
     [from |-> node, to |-> OutOf(g, node)[i][1], data |-> OutOf(g, node)[i][2]]]

incoming(g, node) ==
  [i \in 1..Len(InOf(g, node)) |->
     [from |-> InOf(g, node)[i], to |-> node,
      data |-> OGet(OutOf(g, InOf(g, node)[i]), node)]]

\* children(entity) / parents(entity)
children(g, entity) == OKeys(OutOf(g, entity))

parents(g, entity) == InOf(g, entity)

\* roots(): the nodes without an incoming set or with an empty one
roots_withoutIndexEntry(g) ==
  SelectSeq(g.nodes, LAMBDA n : ~MapHas(g.incomingEdges, n))

roots(g) ==
  SelectSeq(g.nodes,
            LAMBDA n : ~MapHas(g.incomingEdges, n)
                       \/ Len(g.incomingEdges[n]) = 0)

\* leaves(): the nodes without an outgoing map or with an empty one
leaves(g) ==
  SelectSeq(g.nodes,
            LAMBDA n : ~MapHas(g.outgoingEdges, n)
                       \/ Len(g.outgoingEdges[n]) = 0)

\* ------------------------------------------------------ graph: traversal
\* The visit callbacks only record their arguments: a visit is the pair
\* the callback was called with, and acc carries the visited set and the
\* visits made so far.
Visit(node, depth) == [node |-> node, depth |-> depth]

NoVisits == [visited |-> {}, visits |-> <<>>]

RECURSIVE dfsTraverse(_, _, _, _), dfsChildren(_, _, _, _, _)

\* traverse(node, depth) inside dfs
dfsTraverse(g, node, depth, acc) ==
  IF node \in acc.visited
    THEN acc
    ELSE dfsChildren(g, children(g, node), 1, depth + 1,
                     [visited |-> acc.visited \cup {node},
                      visits |-> Append(acc.visits, Visit(node, depth))])

\* for (const child of graph.children(node)) traverse(child, depth + 1)
dfsChildren(g, cs, k, depth, acc) ==
  IF k > Len(cs)
    THEN acc
    ELSE dfsChildren(g, cs, k + 1, depth, dfsTraverse(g, cs[k], depth, acc))

bfs_depthFirst(g, start) == dfsTraverse(g, start, 0, NoVisits).visits

RECURSIVE bfsLoop(_, _, _)

\* while (queue.length > 0) inside bfs
bfsLoop(g, queue, acc) ==
  IF queue = <<>>
    THEN acc
    ELSE LET head == Head(queue) IN
         IF head.node \in acc.visited
           THEN bfsLoop(g, Tail(queue), acc)
           ELSE LET seen == acc.visited \cup {head.node}
                    cs == SelectSeq(children(g, head.node),
                                    LAMBDA c : c \notin seen)
                    pushed == [i \in 1..Len(cs) |-> Visit(cs[i], head.depth + 1)]
                IN bfsLoop(g, Tail(queue) \o pushed,
                           [visited |-> seen,
                            visits |-> Append(acc.visits, head)])

\* bfs(start, visit): the visits in call order
bfs(g, start) == bfsLoop(g, <<Visit(start, 0)>>, NoVisits).visits

dfs_breadthFirst(g, start) == bfs(g, start)

\* dfs(start, visit): the visits in call order
dfs(g, start) == dfsTraverse(g, start, 0, NoVisits).visits

RECURSIVE topoVisit(_, _, _), topoChildren(_, _, _, _), topoNodes(_, _, _)

\* visit(node) inside topological: st carries result, visited, temp and ok,
\* the value visit returned.
topoVisit(g, node, st) ==
  IF node \in st.temp THEN [st EXCEPT !.ok = FALSE]
  ELSE IF node \in st.visited THEN [st EXCEPT !.ok = TRUE]
  ELSE LET r == topoChildren(g, children(g, node), 1,
                             [st EXCEPT !.temp = @ \cup {node}])
       IN IF ~r.ok
            THEN r
            ELSE [r EXCEPT !.temp = @ \ {node},
                           !.visited = @ \cup {node},
                           !.result = <<node>> \o @,
                           !.ok = TRUE]

\* for (const child of graph.children(node)) if (!visit(child)) return false
topoChildren(g, cs, k, st) ==
  IF k > Len(cs)
    THEN [st EXCEPT !.ok = TRUE]
    ELSE LET r == topoVisit(g, cs[k], st)
         IN IF ~r.ok THEN r ELSE topoChildren(g, cs, k + 1, r)

\* for (const node of nodes) if (!visited.has(node)) if (!visit(node)) throw
topoNodes(g, k, st) ==
  IF k > Len(g.nodes)
    THEN [st EXCEPT !.ok = TRUE]
    ELSE IF g.nodes[k] \in st.visited
           THEN topoNodes(g, k + 1, st)
           ELSE LET r == topoVisit(g, g.nodes[k], st)
                IN IF ~r.ok THEN r ELSE topoNodes(g, k + 1, r)

TopoStart == [result |-> <<>>, visited |-> {}, temp |-> {}, ok |-> TRUE]

\* What a call of topological() ends with: the returned array, or the Error
\* it throws.
Returns(result) == [throws |-> FALSE, result |-> result]

Throws == [throws |-> TRUE, result |-> <<>>]

topological_neverThrows(g) == Returns(topoNodes(g, 1, TopoStart).result)

topological_sourceLast(g) ==
  LET r == topoNodes(g, 1, TopoStart)
  IN IF r.ok
       THEN Returns([i \in 1..Len(r.result) |-> r.result[Len(r.result) + 1 - i]])
       ELSE Throws

topological(g) ==
  LET r == topoNodes(g, 1, TopoStart)
  IN IF r.ok THEN Returns(r.result) ELSE Throws

\* descendants(node): the nodes dfs visits at a depth above 0
descendants_withStart(g, node) ==
  LET vs == dfs(g, node) IN [i \in 1..Len(vs) |-> vs[i].node]

descendants_childrenOnly(g, node) ==
  LET vs == SelectSeq(dfs(g, node), LAMBDA v : v.depth = 1)
  IN [i \in 1..Len(vs) |-> vs[i].node]

descendants(g, node) ==
  LET vs == SelectSeq(dfs(g, node), LAMBDA v : v.depth > 0)
  IN [i \in 1..Len(vs) |-> vs[i].node]

RECURSIVE ancestorsLoop(_, _, _)

\* while (queue.length > 0) inside ancestors: acc carries visited and result
ancestorsLoop(g, queue, acc) ==
  IF queue = <<>>
    THEN acc
    ELSE LET current == Head(queue) IN
         IF current \in acc.visited
           THEN ancestorsLoop(g, Tail(queue), acc)
           ELSE ancestorsLoop(g, Tail(queue) \o parents(g, current),
                              [visited |-> acc.visited \cup {current},
                               result |-> Append(acc.result, current)])

\* ancestors(node): breadth-first over parents, starting from the parents
ancestors_startVisited(g, node) ==
  ancestorsLoop(g, parents(g, node),
                [visited |-> {node}, result |-> <<>>]).result

ancestors(g, node) ==
  ancestorsLoop(g, parents(g, node),
                [visited |-> {}, result |-> <<>>]).result

\* ------------------------------------------------- graph: state and calls
\* The graph the variables hold.
G == Graph(nodes, outgoingEdges, incomingEdges)

\* The call leaves the graph g behind.
Becomes(g) ==
  /\ nodes' = g.nodes
  /\ outgoingEdges' = g.outgoingEdges
  /\ incomingEdges' = g.incomingEdges

\* The record of the last graph call: op, the node arguments a and b of
\* addEdge, removeNode and the traversals, the data argument of addEdge,
\* what the caller could observe just before it (pre) and what it returned.
GraphCall(op, a, b, data, pre, ret) ==
  [op |-> op, a |-> a, b |-> b, data |-> data, pre |-> pre, ret |-> ret]

NoGraphCall ==
  GraphCall("none", NoEntity, NoEntity, Undefined, <<>>, <<>>)

\* No call record is held. The record of a call does not influence the
\* calls that follow: a mutating call is made after the record of the one
\* before it was dropped (Continue), and a traversal, which returns without
\* changing the graph, is made from the graph the mutating calls left.
Built == lastGraph = NoGraphCall

GraphInit ==
  /\ nodes = EmptyGraph.nodes
  /\ outgoingEdges = EmptyGraph.outgoingEdges
  /\ incomingEdges = EmptyGraph.incomingEdges
  /\ lastGraph = NoGraphCall

AddNode ==
  \E n \in NodeIds :
    /\ Built
    /\ Becomes(addNode(G, n))
    /\ lastGraph' = GraphCall("addNode", NoEntity, NoEntity, Undefined,
                              <<>>, <<>>)
    /\ UNCHANGED <<ecsVars, last, sigVars, schedVars, resVars, lastSnap, inputVars>>

\* pre: whether the node had outgoing edges and incoming edges.
RemoveNode ==
  \E n \in NodeIds :
    /\ Built
    /\ Becomes(removeNode(G, n))
    /\ lastGraph' = GraphCall("removeNode", n, NoEntity, Undefined,
                              <<children(G, n) # <<>>, parents(G, n) # <<>>>>,
                              <<>>)
    /\ UNCHANGED <<ecsVars, last, sigVars, schedVars, resVars, lastSnap, inputVars>>

\* pre: the edge getEdge(from, to) returned before the call.
AddEdge ==
  \E from \in NodeIds, to \in NodeIds, data \in EdgeData :
    /\ Built
    /\ hasEdge(G, from, to) \/ Cardinality(edges(G)) < MaxEdges
    /\ Becomes(addEdge(G, from, to, data))
    /\ lastGraph' = GraphCall("addEdge", from, to, data,
                              <<hasEdge(G, from, to),
                                OGet(OutOf(G, from), to)>>, <<>>)
    /\ UNCHANGED <<ecsVars, last, sigVars, schedVars, resVars, lastSnap, inputVars>>

RemoveEdge ==
  \E from \in NodeIds, to \in NodeIds :
    /\ Built
    /\ Becomes(removeEdge(G, from, to))
    /\ lastGraph' = GraphCall("removeEdge", NoEntity, NoEntity, Undefined,
                              <<>>, <<>>)
    /\ UNCHANGED <<ecsVars, last, sigVars, schedVars, resVars, lastSnap, inputVars>>

\* The caller is done with the result of the last call.
Continue ==
  /\ ~Built
  /\ lastGraph' = NoGraphCall
  /\ UNCHANGED <<graphVars, ecsVars, last, sigVars, schedVars, resVars, lastSnap, inputVars>>

GraphNext == AddNode \/ RemoveNode \/ AddEdge \/ RemoveEdge \/ Continue

\* Entity identifiers are opaque to the graph, which only uses them as
\* keys: the graphs handed to the traversals are built by addNode and
\* addEdge with the k-th identifier that enters the graph being k, every
\* other naming being the same graph under a renaming. Without removals
\* this yields every order of the children of a node and of its parents.
NextNode(g, n) == hasNode(g, n) \/ \A m \in 1..(n - 1) : hasNode(g, m)

BuildNode ==
  \E n \in TraversalIds :
    /\ Built
    /\ ~hasNode(G, n)
    /\ NextNode(G, n)
    /\ Becomes(addNode(G, n))
    /\ lastGraph' = NoGraphCall
    /\ UNCHANGED <<ecsVars, last, sigVars, schedVars, resVars, lastSnap, inputVars>>

\* The traversals do not read the edge data.
BuildEdge ==
  \E from \in TraversalIds, to \in TraversalIds :
    /\ Built
    /\ ~hasEdge(G, from, to)
    /\ Cardinality(edges(G)) < MaxTraversalEdges
    /\ NextNode(G, from)
    /\ NextNode(addNode(G, from), to)
    /\ Becomes(addEdge(G, from, to, "d1"))
    /\ lastGraph' = NoGraphCall
    /\ UNCHANGED <<ecsVars, last, sigVars, schedVars, resVars, lastSnap, inputVars>>

Dfs ==
  \E start \in TraversalIds :
    /\ Built
    /\ lastGraph' = GraphCall("dfs", start, NoEntity, Undefined, <<>>,
                              dfs(G, start))
    /\ UNCHANGED <<graphVars, ecsVars, last, sigVars, schedVars, resVars, lastSnap, inputVars>>

Bfs ==
  \E start \in TraversalIds :
    /\ Built
    /\ lastGraph' = GraphCall("bfs", start, NoEntity, Undefined, <<>>,
                              bfs(G, start))
    /\ UNCHANGED <<graphVars, ecsVars, last, sigVars, schedVars, resVars, lastSnap, inputVars>>

Topological ==
  /\ Built
  /\ lastGraph' = GraphCall("topological", NoEntity, NoEntity, Undefined, <<>>,
                            topological(G))
  /\ UNCHANGED <<graphVars, ecsVars, last, sigVars, schedVars, resVars, lastSnap, inputVars>>

Descendants ==
  \E node \in TraversalIds :
    /\ Built
    /\ lastGraph' = GraphCall("descendants", node, NoEntity, Undefined, <<>>,
                              descendants(G, node))
    /\ UNCHANGED <<graphVars, ecsVars, last, sigVars, schedVars, resVars, lastSnap, inputVars>>

Ancestors ==
  \E node \in TraversalIds :
    /\ Built
    /\ lastGraph' = GraphCall("ancestors", node, NoEntity, Undefined, <<>>,
                              ancestors(G, node))
    /\ UNCHANGED <<graphVars, ecsVars, last, sigVars, schedVars, resVars, lastSnap, inputVars>>

TraverseNext ==
  \/ BuildNode \/ BuildEdge
  \/ Dfs \/ Bfs \/ Topological \/ Descendants \/ Ancestors

\* --------------------------------------------------------- serialization
\* typeof value, Array.isArray(value), the class value is an instance of,
\* and the members isSerializable descends into (the elements of an array,
\* the values under Object.keys of an object).
TypeOf(v) ==
  IF v \in {"function", "symbol"} THEN v
  ELSE IF v \in ObjectValues THEN "object"
  ELSE IF v = Undefined THEN "undefined"
  ELSE "string"

IsArray(v) == v \in {"[a]", "[function]"}

ClassOf(v) ==
  IF v \in {"Map", "HTMLElement"} THEN v
  ELSE IF IsArray(v) THEN "Array"
  ELSE "Object"

Members(v) ==
  IF v \in {"[a]", "{k: a}"} THEN <<"a">>
  ELSE IF v = "[function]" THEN <<"function">>
  ELSE IF v = "{k: [function]}" THEN <<"[function]">>
  ELSE IF v = "{k: Map}" THEN <<"Map">>
  ELSE <<>>

RECURSIVE isSerializable(_)

isSerializable_shallow(v) ==
  IF v \in {Null, Undefined} THEN TRUE
  ELSE TypeOf(v) \notin {"function", "symbol"}

isSerializable(v) ==
  IF v \in {Null, Undefined} THEN TRUE
  ELSE IF TypeOf(v) \in {"boolean", "number", "string"} THEN TRUE
  ELSE IF TypeOf(v) \in {"function", "symbol"} THEN FALSE
  ELSE IF IsArray(v)
    THEN \A i \in 1..Len(Members(v)) : isSerializable(Members(v)[i])
  ELSE IF TypeOf(v) = "object"
    THEN IF ClassOf(v) \in {"HTMLElement", "Map", "Set", "WeakMap",
                            "WeakSet", "Promise"}
           THEN FALSE
           ELSE \A i \in 1..Len(Members(v)) : isSerializable(Members(v)[i])
  ELSE FALSE

\* A world: the collections createWorld closes over that snapshots read
\* and restore.
World(ents, comps, res) ==
  [entities |-> ents, components |-> comps, resources |-> res]

\* A registry is its Map of names in insertion order; getAll() lists it and
\* get(name) finds a registered name.
RegistryGet(registry, name) == IF SetHas(registry, name) THEN name ELSE Undefined

RECURSIVE discover(_, _, _, _), addAll(_, _, _)

\* for (const entity of entities) entitySet.add(entity)
addAll(entitySet, found, i) ==
  IF i > Len(found)
    THEN entitySet
    ELSE addAll(SetAdd(entitySet, found[i]), found, i + 1)

\* for (const componentType of componentTypes): world.query(componentType)
discover(w, componentTypes, k, entitySet) ==
  IF k > Len(componentTypes)
    THEN entitySet
    ELSE discover(w, componentTypes, k + 1,
                  addAll(entitySet,
                         query(w.entities, w.components, <<componentTypes[k]>>),
                         1))

\* The {id, components} of one discovered entity.
SerializedEntity(w, componentTypes, entityId) ==
  [id |-> entityId,
   components |->
     [t \in {u \in Range(componentTypes) :
               /\ has(w.components, entityId, u)
               /\ isSerializable(get(w.components, entityId, u))}
        |-> get(w.components, entityId, t)]]

Snapshot(version, ents, res) ==
  [version |-> version, entities |-> ents, resources |-> res]

\* serializeWorld(world, componentRegistry)
serializeWorld_allAlive(w, componentRegistry) ==
  Snapshot(1,
           [i \in 1..Len(w.entities) |->
              SerializedEntity(w, componentRegistry, w.entities[i])],
           EmptyMap)

serializeWorld(w, componentRegistry) ==
  LET entitySet == discover(w, componentRegistry, 1, <<>>)
  IN Snapshot(1,
              [i \in 1..Len(entitySet) |->
                 SerializedEntity(w, componentRegistry, entitySet[i])],
              EmptyMap)

Options(include, exclude) ==
  [includeResources |-> include, excludeResources |-> exclude]

RECURSIVE resourcePass(_, _, _, _)

\* for (const resourceType of resourceTypes) in serializeWorldWithResources:
\* acc carries the world's resources, which getResource may extend, and the
\* serialized resources.
resourcePass(resourceTypes, k, options, acc) ==
  IF k > Len(resourceTypes) THEN acc
  ELSE LET name == resourceTypes[k] IN
       IF name \in options.excludeResources
         THEN resourcePass(resourceTypes, k + 1, options, acc)
       ELSE IF /\ options.includeResources # NoList
               /\ name \notin options.includeResources
         THEN resourcePass(resourceTypes, k + 1, options, acc)
       ELSE LET r == getResource(acc.resources, name) IN
            resourcePass(resourceTypes, k + 1, options,
                         [resources |-> r.resources,
                          serialized |->
                            IF isSerializable(r.ret)
                              THEN MapSet(acc.serialized, name, r.ret)
                              ELSE acc.serialized])

\* serializeWorldWithResources(world, componentRegistry, resourceRegistry,
\* options): the snapshot, and the world's resources after the call.
serializeWorldWithResources_includeFirst(w, componentRegistry, resourceRegistry, options) ==
  LET r == resourcePass(resourceRegistry, 1,
                        IF options.includeResources = NoList
                          THEN options
                          ELSE Options(options.includeResources, {}),
                        [resources |-> w.resources, serialized |-> EmptyMap])
  IN [snapshot |-> [serializeWorld(w, componentRegistry)
                      EXCEPT !.resources = r.serialized],
      resources |-> r.resources]

serializeWorldWithResources(w, componentRegistry, resourceRegistry, options) ==
  LET r == resourcePass(resourceRegistry, 1, options,
                        [resources |-> w.resources, serialized |-> EmptyMap])
  IN [snapshot |-> [serializeWorld(w, componentRegistry)
                      EXCEPT !.resources = r.serialized],
      resources |-> r.resources]

\* An absent resourceRegistry option.
NoRegistry == <<"-">>

RECURSIVE restoreComponents(_, _, _, _, _), restoreEntities(_, _, _, _),
          restoreResources(_, _, _, _)

\* for (const [componentName, componentValue] of Object.entries(...)): the
\* entries go to different stores, so their order does not show.
restoreComponents(ents, comps, newId, serialized, componentRegistry) ==
  IF DOMAIN serialized = {}
    THEN comps
    ELSE LET componentName == CHOOSE n \in DOMAIN serialized : TRUE
             rest == MapDelete(serialized, componentName)
         IN restoreComponents(
              ents,
              IF RegistryGet(componentRegistry, componentName) # Undefined
                THEN attach(ents, comps, newId, componentName,
                            serialized[componentName])
                ELSE comps,
              newId, rest, componentRegistry)

\* for (const serializedEntity of snapshot.entities): st carries the new
\* world's entities and components, idMapping and the next fresh identifier.
restoreEntities(serializedEntities, k, componentRegistry, st) ==
  IF k > Len(serializedEntities) THEN st
  ELSE LET newId == st.nextId
           ents == spawn(st.entities, newId)
       IN restoreEntities(
            serializedEntities, k + 1, componentRegistry,
            [entities |-> ents,
             components |-> restoreComponents(ents, st.components, newId,
                                              serializedEntities[k].components,
                                              componentRegistry),
             idMapping |-> MapSet(st.idMapping, serializedEntities[k].id, newId),
             nextId |-> newId + 1])

\* for (const [resourceName, resourceValue] of Object.entries(...))
restoreResources(res, serialized, resourceRegistry, done) ==
  IF DOMAIN serialized \subseteq done
    THEN res
    ELSE LET resourceName == CHOOSE n \in DOMAIN serialized \ done : TRUE
         IN restoreResources(
              IF RegistryGet(resourceRegistry, resourceName) # Undefined
                THEN setResource(res, resourceName, serialized[resourceName])
                ELSE res,
              serialized, resourceRegistry, done \cup {resourceName})

\* What a deserialization ends with: the Error it throws, or the new world
\* with the idMapping built on the way and the next fresh identifier.
VersionError(next) ==
  [throws |-> TRUE, world |-> World(<<>>, EmptyMap, EmptyMap),
   idMapping |-> EmptyMap, nextId |-> next]

Restored(st, res) ==
  [throws |-> FALSE, world |-> World(st.entities, st.components, res),
   idMapping |-> st.idMapping, nextId |-> st.nextId]

RestoreStart(next) ==
  [entities |-> <<>>, components |-> EmptyMap, idMapping |-> EmptyMap,
   nextId |-> next]

\* deserializeWorldWithMapping(snapshot, {componentRegistry,
\* resourceRegistry}) with createEntityId about to return next
deserializeWorldWithMapping_noVersionCheck(snapshot, componentRegistry, resourceRegistry, next) ==
  Restored(restoreEntities(snapshot.entities, 1, componentRegistry,
                           RestoreStart(next)),
           IF resourceRegistry # NoRegistry
             THEN restoreResources(EmptyMap, snapshot.resources,
                                   resourceRegistry, {})
             ELSE EmptyMap)

deserializeWorldWithMapping_firstEntryWins(snapshot, componentRegistry, resourceRegistry, next) ==
  IF snapshot.version # 1 THEN VersionError(next)
  ELSE LET st == restoreEntities(snapshot.entities, 1, componentRegistry,
                                 RestoreStart(next))
           first(id) == CHOOSE k \in 1..Len(snapshot.entities) :
                          /\ snapshot.entities[k].id = id
                          /\ \A j \in 1..(k - 1) : snapshot.entities[j].id # id
       IN Restored([st EXCEPT !.idMapping =
                      [id \in DOMAIN st.idMapping |-> st.entities[first(id)]]],
                   IF resourceRegistry # NoRegistry
                     THEN restoreResources(EmptyMap, snapshot.resources,
                                           resourceRegistry, {})
                     ELSE EmptyMap)

deserializeWorldWithMapping(snapshot, componentRegistry, resourceRegistry, next) ==
  IF snapshot.version # 1 THEN VersionError(next)
  ELSE Restored(restoreEntities(snapshot.entities, 1, componentRegistry,
                                RestoreStart(next)),
                IF resourceRegistry # NoRegistry
                  THEN restoreResources(EmptyMap, snapshot.resources,
                                        resourceRegistry, {})
                  ELSE EmptyMap)

\* deserializeWorld(snapshot, options): the same steps; the idMapping stays
\* inside the function.
deserializeWorld(snapshot, componentRegistry, resourceRegistry, next) ==
  IF snapshot.version # 1 THEN VersionError(next)
  ELSE [Restored(restoreEntities(snapshot.entities, 1, componentRegistry,
                                 RestoreStart(next)),
                 IF resourceRegistry # NoRegistry
                   THEN restoreResources(EmptyMap, snapshot.resources,
                                         resourceRegistry, {})
                   ELSE EmptyMap)
          EXCEPT !.idMapping = EmptyMap]

\* ------------------------------------------- serialization: state and calls
\* The world the variables hold.
TheWorld == World(entities, components, resources)

\* The record of the last serialization call: op, the registries and
\* options passed, the snapshot returned or passed, and what a
\* deserialization ended with.
SnapCall(op, componentRegistry, resourceRegistry, options, snapshot, restored) ==
  [op |-> op, componentRegistry |-> componentRegistry,
   resourceRegistry |-> resourceRegistry, options |-> options,
   snapshot |-> snapshot, restored |-> restored]

NoSnapCall ==
  SnapCall("none", <<>>, NoRegistry, Options(NoList, {}),
           Snapshot(1, <<>>, EmptyMap), VersionError(0))

SnapInit == lastSnap = NoSnapCall

\* No call record is held: the calls that build the world come first, and
\* each serialization call is made from the world they left.
Unsaved == lastSnap = NoSnapCall

\* The world calls that build the world to serialize.
SnapSpawn ==
  /\ Unsaved
  /\ nextId <= MaxSnapshotEntities
  /\ entities' = spawn(entities, createEntityId)
  /\ nextId' = nextId + 1
  /\ UNCHANGED <<components, last, sigVars, schedVars, resVars, graphVars,
                 lastGraph, lastSnap, inputVars>>

SnapDespawn ==
  /\ Unsaved
  /\ \E e \in Range(entities) :
         LET r == despawn(entities, components, e) IN
         /\ entities' = r.entities
         /\ components' = r.components
         /\ UNCHANGED <<nextId, last, sigVars, schedVars, resVars, graphVars,
                        lastGraph, lastSnap, inputVars>>

SnapAttach ==
  /\ Unsaved
  /\ \E e \in Range(entities), t \in CompNames, v \in SnapValues :
         /\ components' = attach(entities, components, e, t, v)
         /\ UNCHANGED <<entities, nextId, last, sigVars, schedVars, resVars,
                        graphVars, lastGraph, lastSnap, inputVars>>

SnapSet ==
  /\ Unsaved
  /\ \E e \in Range(entities), t \in CompNames, v \in SnapValues :
         /\ components' = set(components, e, t, v)
         /\ UNCHANGED <<entities, nextId, last, sigVars, schedVars, resVars,
                        graphVars, lastGraph, lastSnap, inputVars>>

SnapSetResource ==
  /\ Unsaved
  /\ \E n \in ResourceNames, v \in SnapResourceValues :
         /\ resources' = setResource(resources, n, v)
         /\ assigned' = MapSet(assigned, n, v)
         /\ setFirst' = IF n \in Touched THEN setFirst ELSE setFirst \cup {n}
         /\ UNCHANGED <<factoryCalls, ecsVars, last, sigVars, schedVars, graphVars,
                        lastGraph, lastSnap, inputVars>>

SerializeWorld ==
  /\ Unsaved
  /\ \E creg \in ComponentRegistries :
         /\ lastSnap' = SnapCall("serializeWorld", creg, NoRegistry,
                                 Options(NoList, {}),
                                 serializeWorld(TheWorld, creg), VersionError(0))
         /\ UNCHANGED <<ecsVars, last, sigVars, schedVars, resVars, graphVars,
                        lastGraph, inputVars>>

\* getResource inside the call stores the default of a resource that has
\* no entry yet.
SerializeWorldWithResources ==
  /\ Unsaved
  /\ \E rreg \in ResourceRegistries, include \in IncludeLists,
          exclude \in ExcludeLists :
         LET r == serializeWorldWithResources(TheWorld, AllComponents, rreg,
                                              Options(include, exclude)) IN
         /\ resources' = r.resources
         /\ factoryCalls' = [n \in ResourceNames |->
                               IF MapHas(r.resources, n) /\ ~MapHas(resources, n)
                                 THEN factoryCalls[n] + 1
                                 ELSE factoryCalls[n]]
         /\ lastSnap' = SnapCall("serializeWorldWithResources", AllComponents,
                                 rreg, Options(include, exclude), r.snapshot,
                                 VersionError(0))
         /\ UNCHANGED <<assigned, setFirst, ecsVars, last, sigVars, schedVars,
                        graphVars, lastGraph, inputVars>>

\* serializeWorldWithResources followed by deserializeWorld with the same
\* registries.
RoundTrip ==
  /\ Unsaved
  /\ \E creg \in ComponentRegistries :
         LET rreg == AllResources
             r == serializeWorldWithResources(TheWorld, creg, rreg,
                                              Options(NoList, {}))
             d == deserializeWorld(r.snapshot, creg, rreg, nextId)
         IN
         /\ resources' = r.resources
         /\ factoryCalls' = [n \in ResourceNames |->
                               IF MapHas(r.resources, n) /\ ~MapHas(resources, n)
                                 THEN factoryCalls[n] + 1
                                 ELSE factoryCalls[n]]
         /\ nextId' = d.nextId
         /\ lastSnap' = SnapCall("roundTrip", creg, rreg, Options(NoList, {}),
                                 r.snapshot, d)
         /\ UNCHANGED <<assigned, setFirst, entities, components, last, sigVars,
                        schedVars, graphVars, lastGraph, inputVars>>

SnapshotNext ==
  \/ SnapSpawn \/ SnapDespawn \/ SnapAttach \/ SnapSet \/ SnapSetResource
  \/ SerializeWorld \/ SerializeWorldWithResources \/ RoundTrip

\* Deserialization of a snapshot that need not come from serializeWorld:
\* any version, entries that may share an identifier, names that may be
\* missing from the registry passed.
SnapComponents ==
  {c \in UNION {[S -> {"a", Null}] : S \in SUBSET CompNames} :
     MapHas(c, "Velocity") => c = [t \in CompNames |-> "a"]}

SnapEntries == [id : Ids, components : SnapComponents]

SnapResources == {EmptyMap, [n \in ResourceNames |-> "x"]}

Versions == {1, 2}

Snapshots ==
  [version : Versions,
   entities : UNION {[1..n -> SnapEntries] : n \in 0..MaxSnapshotEntries},
   resources : SnapResources]

RestoreRegistries == {NoRegistry, <<"Time">>}

\* The identifiers of a snapshot were returned by createEntityId before.
RestoreSpawn ==
  /\ Unsaved
  /\ nextId <= MaxIds
  /\ entities' = spawn(entities, createEntityId)
  /\ nextId' = nextId + 1
  /\ UNCHANGED <<components, last, sigVars, schedVars, resVars, graphVars,
                 lastGraph, lastSnap, inputVars>>

Known(snapshot) ==
  \A k \in 1..Len(snapshot.entities) : snapshot.entities[k].id < nextId

DeserializeWorld ==
  /\ Unsaved
  /\ \E snapshot \in Snapshots, creg \in ComponentRegistries,
        rreg \in RestoreRegistries :
         LET d == deserializeWorld(snapshot, creg, rreg, nextId) IN
         /\ Known(snapshot)
         /\ nextId' = d.nextId
         /\ lastSnap' = SnapCall("deserializeWorld", creg, rreg,
                                 Options(NoList, {}), snapshot, d)
         /\ UNCHANGED <<entities, components, last, sigVars, schedVars, resVars,
                        graphVars, lastGraph, inputVars>>

DeserializeWorldWithMapping ==
  /\ Unsaved
  /\ \E snapshot \in Snapshots, creg \in ComponentRegistries,
        rreg \in RestoreRegistries :
         LET d == deserializeWorldWithMapping(snapshot, creg, rreg, nextId) IN
         /\ Known(snapshot)
         /\ nextId' = d.nextId
         /\ lastSnap' = SnapCall("deserializeWorldWithMapping", creg, rreg,
                                 Options(NoList, {}), snapshot, d)
         /\ UNCHANGED <<entities, components, last, sigVars, schedVars, resVars,
                        graphVars, lastGraph, inputVars>>

RestoreNext == RestoreSpawn \/ DeserializeWorld \/ DeserializeWorldWithMapping

\* ------------------------------------------------- snapshot documents
\* What JSON.parse returns for a snapshot document: the three fields as a
\* Snapshot holds them, and under types what each of them is in the
\* document: version a number, a string or missing; entities an array, a
\* string, null or missing; resources an object, an array, null, a number
\* or missing. document is "null" for the document null; a field that is no
\* number, array or object is held as 0, <<>> or the empty map.
Parsed(document, versionType, version, entitiesType, ents, resourcesType, res) ==
  [version |-> version, entities |-> ents, resources |-> res,
   types |-> [document |-> document, version |-> versionType,
              entities |-> entitiesType, resources |-> resourcesType]]

\* typeof value, for what a field of the document is.
typeof(type) == IF type \in {"array", "null"} THEN "object" ELSE type

\* What snapshotFromJSON ends with: the Error it throws, or the snapshot.
ParseResult(throws, snapshot) == [throws |-> throws, snapshot |-> snapshot]

snapshotFromJSON_noResourcesCheck(parsed) ==
  IF parsed.types.document = "null" THEN ParseResult(TRUE, parsed)
  ELSE IF typeof(parsed.types.version) # "number" THEN ParseResult(TRUE, parsed)
  ELSE IF parsed.types.entities # "array" THEN ParseResult(TRUE, parsed)
  ELSE ParseResult(FALSE, parsed)

\* snapshotFromJSON(json), from the value JSON.parse(json) returns on:
\* reading parsed.version of null throws a TypeError.
snapshotFromJSON(parsed) ==
  IF parsed.types.document = "null" THEN ParseResult(TRUE, parsed)
  ELSE IF typeof(parsed.types.version) # "number" THEN ParseResult(TRUE, parsed)
  ELSE IF parsed.types.entities # "array" THEN ParseResult(TRUE, parsed)
  ELSE IF \/ typeof(parsed.types.resources) # "object"
          \/ parsed.types.resources = "null"
    THEN ParseResult(TRUE, parsed)
  ELSE ParseResult(FALSE, parsed)

\* The documents loaded: every combination of the three fields, with at
\* most one entry in entities; an array as resources holds its element
\* under the key "0".
ParsedVersions == {<<"number", 1>>, <<"number", 2>>, <<"string", 1>>, <<"undefined", 0>>}

ParsedEntities ==
  {<<"array", e>> : e \in UNION {[1..n -> SnapEntries] : n \in 0..1}}
    \cup {<<"string", <<>> >>, <<"null", <<>> >>, <<"undefined", <<>> >>}

ParsedResources ==
  {<<"object", r>> : r \in SnapResources}
    \cup {<<"array", [n \in {"0"} |-> "x"]>>, <<"null", EmptyMap>>,
          <<"number", EmptyMap>>, <<"undefined", EmptyMap>>}

Documents ==
  {Parsed("object", v[1], v[2], e[1], e[2], r[1], r[2]) :
     v \in ParsedVersions, e \in ParsedEntities, r \in ParsedResources}
    \cup {Parsed("null", "undefined", 0, "undefined", <<>>, "undefined", EmptyMap)}

\* const snapshot = snapshotFromJSON(json);
\* const newWorld = deserializeWorld(snapshot, {componentRegistry, ...}):
\* the call record names the function that threw or returned last.
LoadSnapshot ==
  /\ Unsaved
  /\ \E parsed \in Documents, creg \in ComponentRegistries,
        rreg \in RestoreRegistries :
         LET p == snapshotFromJSON(parsed)
             d == IF p.throws
                    THEN VersionError(nextId)
                    ELSE deserializeWorld(
                           Snapshot(p.snapshot.version, p.snapshot.entities,
                                    p.snapshot.resources),
                           creg, rreg, nextId)
         IN
         /\ Known(parsed)
         /\ nextId' = d.nextId
         /\ lastSnap' = SnapCall(IF p.throws THEN "snapshotFromJSON"
                                              ELSE "deserializeWorld",
                                 creg, rreg, Options(NoList, {}), parsed, d)
         /\ UNCHANGED <<entities, components, last, sigVars, schedVars, resVars,
                        graphVars, lastGraph, inputVars>>

LoadNext == RestoreSpawn \/ LoadSnapshot

\* ------------------------------------------------------------------ input
\* createInputState(): all collections empty, the mouse at the origin.
createInputState ==
  [keys |-> {}, keysJustPressed |-> {}, keysJustReleased |-> {},
   mouse |-> [x |-> 0, y |-> 0], mouseButtons |-> {}]

isKeyDown(state, key) == key \in state.keys

wasKeyPressed(state, key) == key \in state.keysJustPressed

\* The handlers setupInputListeners attaches, on the state getResource(Input)
\* returned.
keydownHandler(state, code, repeat) ==
  IF ~repeat
    THEN [state EXCEPT !.keys = @ \cup {code},
                       !.keysJustPressed = @ \cup {code}]
    ELSE state

keyupHandler(state, code) ==
  [state EXCEPT !.keys = @ \ {code}, !.keysJustReleased = @ \cup {code}]

mousemoveHandler(state, clientX, clientY) ==
  [state EXCEPT !.mouse = [x |-> clientX, y |-> clientY]]

mousedownHandler(state, button) ==
  [state EXCEPT !.mouseButtons = @ \cup {button}]

mouseupHandler(state, button) ==
  [state EXCEPT !.mouseButtons = @ \ {button}]

InputSystem_keepsJustPressed(state) ==
  [state EXCEPT !.keysJustReleased = {}]

\* InputSystem.run(world, _dt) on the state getResource(Input) returns.
InputSystem(state) ==
  [state EXCEPT !.keysJustPressed = {}, !.keysJustReleased = {}]

\* The record of the last event or call: op, its key and what it returned;
\* inTick and cleared tell whether a tick is in progress and whether
\* InputSystem has run in it; pressed is the history of the keys a keydown
\* that is not a repeat has delivered since InputSystem last ran.
InputCall(op, key, ret, inTick, cleared, pressed) ==
  [op |-> op, key |-> key, ret |-> ret, inTick |-> inTick,
   cleared |-> cleared, pressed |-> pressed]

NoInputCall == InputCall("none", NoKey, FALSE, FALSE, FALSE, {})

\* setupInputListeners(world) has been called on a new world.
InputInit ==
  /\ input = createInputState
  /\ lastInput = NoInputCall

\* The browser delivers events between two ticks, never inside one.
Keydown ==
  /\ ~lastInput.inTick
  /\ \E code \in KeyCodes, repeat \in BOOLEAN :
         /\ input' = keydownHandler(input, code, repeat)
         /\ lastInput' = InputCall("keydown", code, repeat, FALSE, FALSE,
                                   IF repeat THEN lastInput.pressed
                                   ELSE lastInput.pressed \cup {code})
  /\ UNCHANGED <<ecsVars, last, sigVars, schedVars, resVars, graphVars,
                 lastGraph, lastSnap>>

Keyup ==
  /\ ~lastInput.inTick
  /\ \E code \in KeyCodes :
         /\ input' = keyupHandler(input, code)
         /\ lastInput' = InputCall("keyup", code, FALSE, FALSE, FALSE,
                                   lastInput.pressed)
  /\ UNCHANGED <<ecsVars, last, sigVars, schedVars, resVars, graphVars,
                 lastGraph, lastSnap>>

Mousemove ==
  /\ ~lastInput.inTick
  /\ \E clientX \in Coordinates, clientY \in Coordinates :
         /\ input' = mousemoveHandler(input, clientX, clientY)
         /\ lastInput' = InputCall("mousemove", NoKey, FALSE, FALSE, FALSE,
                                   lastInput.pressed)
  /\ UNCHANGED <<ecsVars, last, sigVars, schedVars, resVars, graphVars,
                 lastGraph, lastSnap>>

Mousedown ==
  /\ ~lastInput.inTick
  /\ \E button \in Buttons :
         /\ input' = mousedownHandler(input, button)
         /\ lastInput' = InputCall("mousedown", NoKey, FALSE, FALSE, FALSE,
                                   lastInput.pressed)
  /\ UNCHANGED <<ecsVars, last, sigVars, schedVars, resVars, graphVars,
                 lastGraph, lastSnap>>

Mouseup ==
  /\ ~lastInput.inTick
  /\ \E button \in Buttons :
         /\ input' = mouseupHandler(input, button)
         /\ lastInput' = InputCall("mouseup", NoKey, FALSE, FALSE, FALSE,
                                   lastInput.pressed)
  /\ UNCHANGED <<ecsVars, last, sigVars, schedVars, resVars, graphVars,
                 lastGraph, lastSnap>>

\* tick(dt) starts: the systems run one after the other, InputSystem
\* among them.
InputTick ==
  /\ ~lastInput.inTick
  /\ lastInput' = InputCall("tick", NoKey, FALSE, TRUE, FALSE, lastInput.pressed)
  /\ UNCHANGED <<input, ecsVars, last, sigVars, schedVars, resVars, graphVars,
                 lastGraph, lastSnap>>

\* A system of the tick calls wasKeyPressed(key): a system registered
\* before InputSystem calls it before InputSystem has run, one registered
\* after it calls it afterwards.
WasKeyPressed ==
  /\ lastInput.inTick
  /\ \E key \in KeyCodes :
         lastInput' = InputCall("wasKeyPressed", key, wasKeyPressed(input, key),
                                TRUE, lastInput.cleared, lastInput.pressed)
  /\ UNCHANGED <<input, ecsVars, last, sigVars, schedVars, resVars, graphVars,
                 lastGraph, lastSnap>>

IsKeyDown ==
  /\ lastInput.inTick
  /\ \E key \in KeyCodes :
         lastInput' = InputCall("isKeyDown", key, isKeyDown(input, key),
                                TRUE, lastInput.cleared, lastInput.pressed)
  /\ UNCHANGED <<input, ecsVars, last, sigVars, schedVars, resVars, graphVars,
                 lastGraph, lastSnap>>

\* The tick reaches InputSystem and calls its run; ret tells whether a key
\* was in one of the two sets it clears.
RunInputSystem ==
  /\ lastInput.inTick
  /\ ~lastInput.cleared
  /\ input' = InputSystem(input)
  /\ lastInput' = InputCall("InputSystem", NoKey,
                            input.keysJustPressed \cup input.keysJustReleased # {},
                            TRUE, TRUE, {})
  /\ UNCHANGED <<ecsVars, last, sigVars, schedVars, resVars, graphVars,
                 lastGraph, lastSnap>>

\* The last system has returned and tick returns.
InputTickReturn ==
  /\ lastInput.inTick
  /\ lastInput.cleared
  /\ lastInput' = InputCall("tickReturn", NoKey, FALSE, FALSE, FALSE,
                            lastInput.pressed)
  /\ UNCHANGED <<input, ecsVars, last, sigVars, schedVars, resVars, graphVars,
                 lastGraph, lastSnap>>

InputNext ==
  \/ Keydown \/ Keyup \/ Mousemove \/ Mousedown \/ Mouseup
  \/ InputTick \/ WasKeyPressed \/ IsKeyDown \/ RunInputSystem
  \/ InputTickReturn

\* createWorld() and createGraph(): the state every run starts from.
Init ==
  EcsInit /\ SigInit /\ SchedInit /\ ResInit /\ GraphInit /\ SnapInit /\ InputInit

\* The entity and component methods.
Spec == Init /\ [][EcsNext]_vars

\* The signal methods, handlers included.
SpecSignal == Init /\ [][SigNext]_vars

\* addSystem and tick under a monotonic clock.
SpecSched == Init /\ [][SchedNext]_vars

\* addSystem and tick, called again and again while the clock advances.
SpecSchedFair == Init /\ [][SchedFairNext]_vars /\ WF_vars(TickLater)

\* getResource and setResource.
SpecResource == Init /\ [][ResNext]_vars

\* The methods that change a graph.
SpecGraph == Init /\ [][GraphNext]_vars

\* The traversals of a graph, over the graphs addNode and addEdge build.
SpecTraverse == Init /\ [][TraverseNext]_vars

\* serializeWorld, serializeWorldWithResources and the round trip, over the
\* worlds spawn, despawn, attach, set and setResource build.
SpecSnapshot == Init /\ [][SnapshotNext]_vars

\* deserializeWorld and deserializeWorldWithMapping, over snapshots of any
\* content.
SpecRestore == Init /\ [][RestoreNext]_vars

\* Loading a saved document: snapshotFromJSON, then deserializeWorld.
SpecLoad == Init /\ [][LoadNext]_vars

\* The input events and the ticks between them.
SpecInput == Init /\ [][InputNext]_vars

\* ================================================================ claims
Alive == Range(entities)

IsCall(c, op, e, t) == c.op = op /\ c.e = e /\ c.t = t

\* C1: no component store ever holds an entry for an entity that is not
\* alive, and right after despawn(E) the entity does not exist and has no
\* component in any store of the world, whichever types the caller named.
C1_NoDanglingComponents ==
  /\ \A t \in DOMAIN components :
       \A e \in DOMAIN components[t] : exists(entities, e)
  /\ last.op = "despawn" =>
       /\ ~exists(entities, last.e)
       /\ \A t \in DOMAIN components : ~has(components, last.e, t)

\* despawn(E) has just removed an entity that had every component type,
\* while another entity keeps its components.
C1_Witness ==
  /\ last.op = "despawn"
  /\ last.pre = CompNames
  /\ \E e \in Alive : TypesOf(components, e) # {}

\* C2 as stated: has(E, T) holds exactly when attach(E, T, ..) was called and
\* no detach(E, T) or despawn(E) followed it. Step by step: a call of
\* attach(E, T, ..) makes it true, a call of detach(E, T) or despawn(E) makes
\* it false, and no other call changes it.
C2_HasIffAttachCalled ==
  [][\A e \in Ids, t \in CompNames :
       has(components', e, t) <=>
         \/ IsCall(last', "attach", e, t)
         \/ /\ has(components, e, t)
            /\ ~IsCall(last', "detach", e, t)
            /\ ~(last'.op = "despawn" /\ last'.e = e)]_vars

\* C2 amended: has(E, T) holds exactly when attach(E, T, ..) was called while
\* E was alive and no detach(E, T) or despawn(E) followed it.
C2_HasIffAttachedWhileAlive ==
  [][\A e \in Ids, t \in CompNames :
       has(components', e, t) <=>
         \/ IsCall(last', "attach", e, t) /\ exists(entities, e)
         \/ /\ has(components, e, t)
            /\ ~IsCall(last', "detach", e, t)
            /\ ~(last'.op = "despawn" /\ last'.e = e)]_vars

\* attach has just been called on a despawned entity and left it without
\* the component.
C2_Witness ==
  /\ last.op = "attach"
  /\ last.e < nextId
  /\ ~exists(entities, last.e)
  /\ ~has(components, last.e, last.t)

\* C3: query(T1..Tn) returns exactly the alive entities that have every Ti,
\* each once; with no type it returns all alive entities.
C3_QueryCorrect ==
  last.op = "query" =>
    /\ \A i, j \in 1..Len(last.ret) : last.ret[i] = last.ret[j] => i = j
    /\ Range(last.ret) =
         {e \in Alive : \A i \in 1..Len(last.ts) : has(components, e, last.ts[i])}
    /\ last.ts = <<>> => Range(last.ret) = Alive

\* A query for two different types has returned one of two alive entities.
C3_Witness ==
  /\ last.op = "query"
  /\ Len(last.ts) = 2
  /\ last.ts[1] # last.ts[2]
  /\ Len(last.ret) = 1
  /\ Len(entities) = 2

C5_SetWithoutAttachIsNoop ==
  [][(last'.op = "set" /\ ~has(components, last'.e, last'.t)) =>
       /\ components' = components
       /\ entities' = entities
       /\ ~has(components', last'.e, last'.t)
       /\ get(components', last'.e, last'.t) = Undefined]_vars

\* set has just been called for a type the alive entity lacks, while it has
\* the other type and another entity has the type that was set.
C5_Witness ==
  /\ last.op = "set"
  /\ exists(entities, last.e)
  /\ ~has(components, last.e, last.t)
  /\ TypesOf(components, last.e) # {}
  /\ \E e \in Alive : has(components, e, last.t)

\* C6: attach on an entity that is not alive changes neither the live set
\* nor any store; the entity has no component and is in no query result.
C6_AttachToDeadIsNoop ==
  [][(last'.op = "attach" /\ ~exists(entities, last'.e)) =>
       /\ components' = components
       /\ entities' = entities
       /\ ~has(components', last'.e, last'.t)
       /\ \A ts \in QueryLists :
            ~SetHas(query(entities', components', ts), last'.e)]_vars

\* attach has just been called with an identifier that was never spawned,
\* in a world where an alive entity has components.
C6_Witness ==
  /\ last.op = "attach"
  /\ last.e >= nextId
  /\ \E e \in Alive : TypesOf(components, e) = CompNames

\* C7 as stated: an emit that has returned has called every handler that
\* was subscribed to the signal when emit was called, once each, in
\* subscription order and with the emitted payload; it has called no handler
\* that had been unsubscribed before the emit and no handler that was not
\* subscribed to this signal.
C7_EmitFanOut ==
  emission.done =>
    /\ emission.invoked =
         [i \in 1..Len(emission.atCall) |-> <<emission.atCall[i], emission.payload>>]
    /\ \A i \in 1..Len(emission.invoked) :
         /\ emission.invoked[i][1] \notin emission.gone
         /\ SetHas(emission.atCall, emission.invoked[i][1])

\* C8 as stated: the set of handlers an emit has called is the set that was
\* subscribed when emit was called, whatever the handlers subscribed or
\* unsubscribed meanwhile.
C8_EmitIteratesSnapshot ==
  emission.done =>
    {emission.invoked[i][1] : i \in 1..Len(emission.invoked)} = Range(emission.atCall)

\* C9 as stated: a closure removes the registration of its own subscribe
\* call and no other: a handler stays subscribed as long as the closure of
\* one of its subscribe calls has not been called, however often the other
\* closures are called.
C9_UnsubscribeOnlyOwnRegistration ==
  \A c \in 1..Len(closures) :
    c \notin called => SetHas(signals[closures[c].sig], closures[c].h)

\* C10 as stated: a tick executes a frequency-capped system only if at
\* least 1000/F ms have passed since that system last executed, so two
\* consecutive executions are at least 1000/F ms apart; and a tick that skips
\* the system leaves its last-run timestamp as it was.
C10_FrequencyGate ==
  [][last'.op = "tick" =>
       \A i \in 1..Len(systems) :
         systems[i].frequency # NoCap =>
           /\ (i \in Executed(ran') /\ lastExec[i] # Never) =>
                (clock' - lastExec[i]) * systems[i].frequency >= MsPerSecond
           /\ i \notin Executed(ran') =>
                MapGet(systemLastRun', systems[i].name)
                  = MapGet(systemLastRun, systems[i].name)]_vars

\* C11 as stated: a frequency-capped system that has not executed yet
\* executes in the next tick, whatever the clock reads, and a system that has
\* executed is skipped by every tick that comes less than 1000/F ms after
\* that execution.
C11_FirstTickExecutes ==
  [][last'.op = "tick" =>
       \A i \in 1..Len(systems) :
         systems[i].frequency # NoCap =>
           /\ lastExec[i] = Never => i \in Executed(ran')
           /\ (/\ lastExec[i] # Never
               /\ (clock' - lastExec[i]) * systems[i].frequency < MsPerSecond)
                => i \notin Executed(ran')]_vars

\* C12: the run calls of one tick are made in registration order, each
\* with the dt passed to tick, and every system without a frequency is run
\* exactly once.
C12_TickOrder ==
  last.op = "tick" =>
    /\ \A k, l \in 1..Len(ran) : k < l => ran[k].system < ran[l].system
    /\ \A k \in 1..Len(ran) : ran[k].dt = last.v
    /\ \A i \in 1..Len(systems) :
         systems[i].frequency = NoCap =>
           Cardinality({k \in 1..Len(ran) : ran[k].system = i}) = 1

\* A tick has run two systems, the first of them frequency-capped, with the
\* larger dt.
C12_Witness ==
  /\ last.op = "tick"
  /\ last.v = 33
  /\ Len(ran) = 2
  /\ systems[1].frequency # NoCap
  /\ systems[2].frequency = NoCap

\* C13: getResource(R) returns the last value given to setResource(R, .)
\* and, when R was never set, the output of R's default factory, which it
\* stores; the factory of a resource is called at most once, and never when
\* the first call naming the resource was a setResource.
C13_ResourceDefaultOnce ==
  /\ last.op = "getResource" =>
       /\ last.ret = IF MapHas(assigned, last.t)
                       THEN MapGet(assigned, last.t)
                       ELSE ResDefault(last.t)
       /\ MapHas(resources, last.t)
       /\ MapGet(resources, last.t) = last.ret
  /\ \A n \in ResourceNames :
       /\ factoryCalls[n] <= 1
       /\ n \in setFirst => factoryCalls[n] = 0

\* getResource has returned a value given to setResource for a resource
\* whose default had been produced before, while the other resource was set
\* before it was ever read.
C13_Witness ==
  /\ last.op = "getResource"
  /\ last.ret = "x"
  /\ factoryCalls[last.t] = 1
  /\ setFirst # {}

\* C14: every edge of the graph has both its source and its target among
\* the nodes, and right after addEdge(A, B, d) both A and B are nodes.
C14_EdgeEndpointsAreNodes ==
  /\ \A e \in edges(G) : hasNode(G, e.from) /\ hasNode(G, e.to)
  /\ lastGraph.op = "addEdge" =>
       hasNode(G, lastGraph.a) /\ hasNode(G, lastGraph.b)

\* addEdge has just added a second edge, between two different nodes of
\* which the target entered the graph first.
C14_Witness ==
  /\ lastGraph.op = "addEdge"
  /\ lastGraph.a # lastGraph.b
  /\ Cardinality(edges(G)) = 2
  /\ nodes = <<lastGraph.b, lastGraph.a>>

\* C15: removeNode(N) leaves no edge from or to N in either index, and
\* leaves every edge that does not touch N as it was, data included.
C15_RemoveNodeRemovesEdges ==
  [][lastGraph'.op = "removeNode" =>
       LET N == lastGraph'.a IN
       /\ \A e \in edges(G') : e.from # N /\ e.to # N
       /\ children(G', N) = <<>> /\ parents(G', N) = <<>>
       /\ \A m \in NodeIds :
            /\ N \notin Range(children(G', m))
            /\ N \notin Range(parents(G', m))
       /\ edges(G') = {e \in edges(G) : e.from # N /\ e.to # N}
       /\ \A m \in NodeIds \ {N} :
            parents(G', m) = SetDelete(parents(G, m), N)]_vars

\* removeNode has removed a node that had outgoing and incoming edges, and
\* an edge between other nodes is left.
C15_Witness ==
  /\ lastGraph.op = "removeNode"
  /\ lastGraph.pre = <<TRUE, TRUE>>
  /\ edges(G) # {}

\* Reachability over the edges of a graph, independent of the traversals.
Succ(g, S) == {e.to : e \in {x \in edges(g) : x.from \in S}}

RECURSIVE ReachFrom(_, _)

ReachFrom(g, S) ==
  IF Succ(g, S) \subseteq S THEN S ELSE ReachFrom(g, S \cup Succ(g, S))

\* The nodes reachable from start along zero or more edges.
Reachable(g, start) == ReachFrom(g, {start})

\* A directed cycle: some edge leads back to a node its target reaches.
HasCycle(g) == \E e \in edges(g) : e.from \in Reachable(g, e.to)

RECURSIVE DistFrom(_, _, _, _, _)

DistFrom(g, frontier, seen, d, n) ==
  IF n \in frontier
    THEN d
    ELSE DistFrom(g, Succ(g, frontier) \ seen, seen \cup Succ(g, frontier),
                  d + 1, n)

\* The length of a shortest path from start to a node it reaches.
Dist(g, start, n) == DistFrom(g, {start}, {start}, 0, n)

\* The position of a node in a list of nodes that contains it.
IndexOf(list, n) == CHOOSE i \in 1..Len(list) : list[i] = n

NodesOf(visits) == [i \in 1..Len(visits) |-> visits[i].node]

NoDuplicates(list) ==
  \A i, j \in 1..Len(list) : list[i] = list[j] => i = j

\* The last visit of the subtree below visit k of a pre-order: the visits
\* that follow k at a greater depth.
SubtreeEnd(visits, k) ==
  CHOOSE m \in k..Len(visits) :
    /\ \A j \in (k + 1)..m : visits[j].depth > visits[k].depth
    /\ m < Len(visits) => visits[m + 1].depth <= visits[k].depth

\* The visit through which visit k was discovered: the last one before k
\* that is one level up.
ParentVisit(visits, k) ==
  CHOOSE j \in 1..(k - 1) :
    /\ visits[j].depth = visits[k].depth - 1
    /\ \A i \in (j + 1)..(k - 1) : visits[i].depth # visits[k].depth - 1

\* C16: on a graph without a cycle topological() returns a list that holds
\* every node exactly once and every edge's source before its target.
C16_TopologicalOrder ==
  (lastGraph.op = "topological" /\ ~HasCycle(G)) =>
    /\ ~lastGraph.ret.throws
    /\ Range(lastGraph.ret.result) = Range(nodes)
    /\ NoDuplicates(lastGraph.ret.result)
    /\ \A e \in edges(G) :
         IndexOf(lastGraph.ret.result, e.from)
           < IndexOf(lastGraph.ret.result, e.to)

\* topological() has sorted three nodes of which one is reached both
\* directly and through another.
C16_Witness ==
  /\ lastGraph.op = "topological"
  /\ ~lastGraph.ret.throws
  /\ Len(lastGraph.ret.result) = 3
  /\ \E a, b, c \in TraversalIds :
       edges(G) = {[from |-> a, to |-> b, data |-> "d1"],
                   [from |-> b, to |-> c, data |-> "d1"],
                   [from |-> a, to |-> c, data |-> "d1"]}

\* C17: topological() throws exactly when the graph has a directed cycle,
\* a self-loop included, and changes nothing; dfs and bfs on a graph with a
\* cycle end having visited every node reachable from start exactly once.
C17_CycleThrows ==
  [][/\ lastGraph'.op = "topological" =>
          /\ lastGraph'.ret.throws <=> HasCycle(G)
          /\ G' = G
     /\ (lastGraph'.op \in {"dfs", "bfs"} /\ HasCycle(G)) =>
          /\ G' = G
          /\ Range(NodesOf(lastGraph'.ret)) = Reachable(G, lastGraph'.a)
          /\ NoDuplicates(NodesOf(lastGraph'.ret))]_vars

\* topological() has thrown on a graph whose only cycle is a self-loop, on
\* a node that another node leads to.
C17_Witness ==
  /\ lastGraph.op = "topological"
  /\ lastGraph.ret.throws
  /\ \E n, m \in TraversalIds :
       /\ n # m
       /\ edges(G) = {[from |-> n, to |-> n, data |-> "d1"],
                      [from |-> m, to |-> n, data |-> "d1"]}

\* C18: dfs(start) visits exactly the nodes reachable from start, each
\* once, in depth-first pre-order: start first at depth 0, every other
\* node one level below the visit that discovered it, to which an edge
\* connects it, and every child of a node visited no later than the end of
\* that node's subtree.
C18_DfsPreorder ==
  lastGraph.op = "dfs" =>
    LET vs == lastGraph.ret IN
    /\ Range(NodesOf(vs)) = Reachable(G, lastGraph.a)
    /\ NoDuplicates(NodesOf(vs))
    /\ vs[1] = Visit(lastGraph.a, 0)
    /\ \A k \in 2..Len(vs) :
         /\ vs[k].depth >= 1
         /\ vs[k].depth <= vs[k - 1].depth + 1
         /\ hasEdge(G, vs[ParentVisit(vs, k)].node, vs[k].node)
    /\ \A k \in 1..Len(vs) :
         \A i \in 1..Len(children(G, vs[k].node)) :
           IndexOf(NodesOf(vs), children(G, vs[k].node)[i])
             <= SubtreeEnd(vs, k)

\* dfs has visited at depth 2 a node that an edge connects to start.
C18_Witness ==
  /\ lastGraph.op = "dfs"
  /\ \E k \in 1..Len(lastGraph.ret) :
       /\ lastGraph.ret[k].depth = 2
       /\ hasEdge(G, lastGraph.a, lastGraph.ret[k].node)

\* C19: bfs(start) visits exactly the nodes reachable from start, each
\* once, at a depth equal to the length of a shortest path from start, in
\* order of non-decreasing depth.
C19_BfsShortestDepth ==
  lastGraph.op = "bfs" =>
    LET vs == lastGraph.ret IN
    /\ Range(NodesOf(vs)) = Reachable(G, lastGraph.a)
    /\ NoDuplicates(NodesOf(vs))
    /\ \A k \in 1..Len(vs) : vs[k].depth = Dist(G, lastGraph.a, vs[k].node)
    /\ \A k \in 2..Len(vs) : vs[k - 1].depth <= vs[k].depth

\* bfs has visited at depth 1 a node that the node visited before it, also
\* at depth 1, leads to.
C19_Witness ==
  /\ lastGraph.op = "bfs"
  /\ Len(lastGraph.ret) = 3
  /\ lastGraph.ret[3].depth = 1
  /\ hasEdge(G, lastGraph.ret[2].node, lastGraph.ret[3].node)

\* C20: descendants(N) holds every node other than N that is reachable
\* from N, each once, and never N itself.
C20_Descendants ==
  lastGraph.op = "descendants" =>
    /\ Range(lastGraph.ret) = Reachable(G, lastGraph.a) \ {lastGraph.a}
    /\ NoDuplicates(lastGraph.ret)
    /\ lastGraph.a \notin Range(lastGraph.ret)

\* descendants(N) has returned two nodes of a cycle through N.
C20_Witness ==
  /\ lastGraph.op = "descendants"
  /\ Len(lastGraph.ret) = 2
  /\ hasEdge(G, lastGraph.ret[2], lastGraph.a)

\* C21: ancestors(N) holds, each once, exactly the nodes from which N is
\* reached along one or more edges (N itself when a cycle runs through it).
C21_Ancestors ==
  lastGraph.op = "ancestors" =>
    /\ Range(lastGraph.ret)
         = {m \in Range(nodes) : lastGraph.a \in Succ(G, Reachable(G, m))}
    /\ NoDuplicates(lastGraph.ret)

\* ancestors(N) has returned N and another node, on a cycle through N.
C21_Witness ==
  /\ lastGraph.op = "ancestors"
  /\ Len(lastGraph.ret) >= 2
  /\ lastGraph.a \in Range(lastGraph.ret)

\* C22: the graph holds at most one edge per ordered pair (from, to), in
\* edges() and in the lists of every node; right after addEdge(A, B, d)
\* getEdge(A, B) carries d, and outgoing(A), children(A), incoming(B) and
\* parents(B) hold the edge exactly once.
C22_SimpleGraph ==
  /\ \A e1, e2 \in edges(G) :
       (e1.from = e2.from /\ e1.to = e2.to) => e1 = e2
  /\ \A n \in NodeIds :
       /\ NoDuplicates(children(G, n))
       /\ NoDuplicates(parents(G, n))
       /\ Len(outgoing(G, n)) = Len(children(G, n))
       /\ Len(incoming(G, n)) = Len(parents(G, n))
  /\ lastGraph.op = "addEdge" =>
       LET A == lastGraph.a
           B == lastGraph.b
           edge == [from |-> A, to |-> B, data |-> lastGraph.data]
       IN /\ getEdge(G, A, B) = edge
          /\ {e \in edges(G) : e.from = A /\ e.to = B} = {edge}
          /\ Cardinality({i \in 1..Len(outgoing(G, A)) :
                            outgoing(G, A)[i] = edge}) = 1
          /\ Cardinality({i \in 1..Len(incoming(G, B)) :
                            incoming(G, B)[i] = edge}) = 1

\* addEdge has replaced the data of an edge that was there, in a graph that
\* holds another edge as well.
C22_Witness ==
  /\ lastGraph.op = "addEdge"
  /\ lastGraph.pre[1]
  /\ lastGraph.pre[2] # lastGraph.data
  /\ Cardinality(edges(G)) = 2

\* C23: roots() lists, each once, exactly the nodes no edge leads to, and
\* leaves() exactly the nodes no edge leaves.
C23_RootsAndLeaves ==
  /\ Range(roots(G)) = {n \in Range(nodes) : \A e \in edges(G) : e.to # n}
  /\ NoDuplicates(roots(G))
  /\ Range(leaves(G)) = {n \in Range(nodes) : \A e \in edges(G) : e.from # n}
  /\ NoDuplicates(leaves(G))

\* removeNode has removed the other endpoint of a node's last incoming and
\* last outgoing edge: the node keeps an empty incoming set and an empty
\* outgoing map, and is a root and a leaf.
C23_Witness ==
  /\ lastGraph.op = "removeNode"
  /\ lastGraph.pre = <<TRUE, TRUE>>
  /\ \E n \in Range(nodes) :
       /\ MapHas(incomingEdges, n) /\ incomingEdges[n] = <<>>
       /\ MapHas(outgoingEdges, n) /\ outgoingEdges[n] = <<>>
       /\ n \in Range(roots(G))
       /\ n \in Range(leaves(G))

\* The values found inside a value, itself included, through nested objects
\* and arrays.
RECURSIVE Inside(_)
Inside(v) == {v} \cup UNION {Inside(Members(v)[i]) : i \in 1..Len(Members(v))}

\* A value with no function, symbol, Map or HTMLElement anywhere inside.
Clean(v) == Inside(v) \cap {"function", "symbol", "Map", "HTMLElement"} = {}

\* The value getResource returns for a name.
ResourceValue(res, n) == IF MapHas(res, n) THEN res[n] ELSE ResDefault(n)

Listed == lastSnap.snapshot.entities

ListedIds == [k \in 1..Len(Listed) |-> Listed[k].id]

\* The world a round trip starts from: every alive entity has a registered
\* component, and every component and resource value is serializable.
RoundTripInput ==
  /\ \A e \in Alive :
       \E t \in Range(lastSnap.componentRegistry) : has(components, e, t)
  /\ \A e \in Alive, t \in CompNames :
       has(components, e, t) => Clean(get(components, e, t))
  /\ \A n \in DOMAIN resources : Clean(resources[n])

\* C24: deserializing the snapshot serializeWorldWithResources made of such
\* a world, with the same registries, gives a world with as many entities,
\* each with exactly the registered components of its original and equal
\* values, and an identifier other than the original's; every registered
\* resource has its original value.
C24_RoundTrip ==
  (lastSnap.op = "roundTrip" /\ RoundTripInput) =>
    LET d == lastSnap.restored
        w == d.world
    IN /\ ~d.throws
       /\ Len(w.entities) = Len(entities)
       /\ Range(ListedIds) = Alive
       /\ Len(Listed) = Len(w.entities)
       /\ \A k \in 1..Len(Listed) :
            LET old == Listed[k].id
                new == w.entities[k]
            IN /\ new # old
               /\ \A t \in CompNames :
                    /\ has(w.components, new, t) <=>
                         /\ t \in Range(lastSnap.componentRegistry)
                         /\ has(components, old, t)
                    /\ has(w.components, new, t) =>
                         get(w.components, new, t) = get(components, old, t)
       /\ \A n \in Range(lastSnap.resourceRegistry) :
            ResourceValue(w.resources, n) = ResourceValue(resources, n)

Deserializations == {"deserializeWorld", "deserializeWorldWithMapping"}

\* C25: deserializeWorld and deserializeWorldWithMapping throw on every
\* snapshot whose version is not 1: there is no world and no idMapping,
\* createEntityId was not called, and the world at hand is as it was.
C25_VersionRejected ==
  [][(/\ lastSnap' # lastSnap
      /\ lastSnap'.op \in Deserializations
      /\ lastSnap'.snapshot.version # 1) =>
       /\ lastSnap'.restored = VersionError(nextId)
       /\ nextId' = nextId
       /\ entities' = entities
       /\ components' = components
       /\ resources' = resources]_vars

\* deserializeWorldWithMapping has thrown on a version 2 snapshot with two
\* entries, a registered component and a registered resource.
C25_Witness ==
  /\ lastSnap.op = "deserializeWorldWithMapping"
  /\ lastSnap.snapshot.version = 2
  /\ Len(Listed) = 2
  /\ MapHas(Listed[1].components, "Position")
  /\ lastSnap.resourceRegistry # NoRegistry
  /\ MapHas(lastSnap.snapshot.resources, "Time")
  /\ lastSnap.restored.throws

\* The alive entities with at least one component of a type in the
\* registry the call was made with.
WithRegistered ==
  {e \in Alive :
     \E t \in Range(lastSnap.componentRegistry) : has(components, e, t)}

\* C26: serializeWorld lists, each once, exactly the alive entities that
\* have a component of a registered type.
C26_ListedEntities ==
  lastSnap.op = "serializeWorld" =>
    /\ Range(ListedIds) = WithRegistered
    /\ Range(ListedIds) \subseteq Alive
    /\ NoDuplicates(ListedIds)

\* serializeWorld has listed once an entity that both registered types are
\* attached to.
C26_Witness ==
  /\ lastSnap.op = "serializeWorld"
  /\ lastSnap.componentRegistry = AllComponents
  /\ Len(Listed) = 1
  /\ \A t \in CompNames : has(components, Listed[1].id, t)

\* C27: the snapshot of serializeWorld has version 1; each listed entity
\* carries exactly its registered components whose value has no function,
\* symbol, Map or HTMLElement anywhere inside, with their values, and an
\* entity whose values are all dropped is still listed.
C27_DropsNonSerializable ==
  lastSnap.op = "serializeWorld" =>
    /\ lastSnap.snapshot.version = 1
    /\ WithRegistered \subseteq Range(ListedIds)
    /\ \A k \in 1..Len(Listed) :
         LET e == Listed[k].id IN
         /\ DOMAIN Listed[k].components =
              {t \in Range(lastSnap.componentRegistry) :
                 /\ has(components, e, t)
                 /\ Clean(get(components, e, t))}
         /\ \A t \in DOMAIN Listed[k].components :
              Listed[k].components[t] = get(components, e, t)

\* serializeWorld has listed an entity with its Velocity and without its
\* Position, an object that holds an array with a function.
C27_Witness ==
  /\ lastSnap.op = "serializeWorld"
  /\ lastSnap.componentRegistry = AllComponents
  /\ Len(Listed) = 1
  /\ get(components, Listed[1].id, "Position") = "{k: [function]}"
  /\ DOMAIN Listed[1].components = {"Velocity"}

\* The snapshot's identifiers are pairwise different.
UniqueIds == NoDuplicates(ListedIds)

\* The new world holds one new alive entity per entry of the snapshot.
OnePerEntry(w) ==
  /\ Len(w.entities) = Len(Listed)
  /\ NoDuplicates(w.entities)
  /\ Range(w.entities) \cap Alive = {}

\* For snapshots with unique identifiers the mapping is injective, has one
\* key per entry and maps no identifier to itself.
UniqueMapping(m) ==
  UniqueIds =>
    /\ \A a, b \in DOMAIN m : m[a] = m[b] => a = b
    /\ Cardinality(DOMAIN m) = Len(Listed)
    /\ \A a \in DOMAIN m : m[a] # a

\* The last entry of the snapshot that carries an identifier.
LastEntry(id) ==
  CHOOSE k \in 1..Len(Listed) :
    /\ Listed[k].id = id
    /\ \A j \in (k + 1)..Len(Listed) : Listed[j].id # id

\* C28 as stated: deserializeWorldWithMapping spawns one new alive entity
\* per entry, and the mapping sends every entry's identifier to the entity
\* created for that entry.
C28_MappingPerEntry ==
  (lastSnap.op = "deserializeWorldWithMapping" /\ ~lastSnap.restored.throws) =>
    LET w == lastSnap.restored.world
        m == lastSnap.restored.idMapping
    IN /\ OnePerEntry(w)
       /\ \A k \in 1..Len(Listed) : MapGet(m, Listed[k].id) = w.entities[k]
       /\ UniqueMapping(m)

\* C28: deserializeWorldWithMapping spawns one new alive entity per entry,
\* and the mapping sends every identifier of the snapshot to the entity
\* created for the last entry that carries it; for snapshots with unique
\* identifiers that is the entity created for the entry, the mapping is
\* injective, has one key per entry and maps no identifier to itself.
C28_MappingLastEntry ==
  (lastSnap.op = "deserializeWorldWithMapping" /\ ~lastSnap.restored.throws) =>
    LET w == lastSnap.restored.world
        m == lastSnap.restored.idMapping
    IN /\ OnePerEntry(w)
       /\ DOMAIN m = Range(ListedIds)
       /\ \A id \in DOMAIN m : m[id] = w.entities[LastEntry(id)]
       /\ UniqueIds =>
            \A k \in 1..Len(Listed) : m[Listed[k].id] = w.entities[k]
       /\ UniqueMapping(m)

\* deserializeWorldWithMapping has restored a snapshot whose two entries
\* carry the same identifier: two entities, one key.
C28_Witness ==
  /\ lastSnap.op = "deserializeWorldWithMapping"
  /\ ~lastSnap.restored.throws
  /\ Len(Listed) = 2
  /\ Listed[1].id = Listed[2].id
  /\ Len(lastSnap.restored.world.entities) = 2
  /\ Cardinality(DOMAIN lastSnap.restored.idMapping) = 1

\* C29: deserializeWorld returns a world for every version 1 snapshot,
\* whatever names it holds: every entry's entity is spawned and carries
\* exactly the entry's components of a registered name, with the entry's
\* values, and the world holds exactly the snapshot's resources of a
\* registered name, with the snapshot's values.
C29_UnknownNamesSkipped ==
  (lastSnap.op = "deserializeWorld" /\ lastSnap.snapshot.version = 1) =>
    LET w == lastSnap.restored.world
        creg == Range(lastSnap.componentRegistry)
        rreg == IF lastSnap.resourceRegistry = NoRegistry
                  THEN {}
                  ELSE Range(lastSnap.resourceRegistry)
    IN /\ ~lastSnap.restored.throws
       /\ OnePerEntry(w)
       /\ \A k \in 1..Len(Listed), t \in CompNames :
            /\ has(w.components, w.entities[k], t) <=>
                 (t \in creg /\ MapHas(Listed[k].components, t))
            /\ has(w.components, w.entities[k], t) =>
                 get(w.components, w.entities[k], t) = Listed[k].components[t]
       /\ DOMAIN w.resources = DOMAIN lastSnap.snapshot.resources \cap rreg
       /\ \A n \in DOMAIN w.resources :
            w.resources[n] = lastSnap.snapshot.resources[n]

\* C30: the resources of the snapshot of serializeWorldWithResources are
\* exactly the registered resources whose name is not in the exclude list,
\* is in the include list when there is one, and whose value has no
\* function, symbol, Map or HTMLElement inside; a name in both lists is
\* left out.
C30_ResourceFilter ==
  lastSnap.op = "serializeWorldWithResources" =>
    LET options == lastSnap.options
        written == lastSnap.snapshot.resources
    IN /\ \A n \in ResourceNames :
            MapHas(written, n) <=>
              /\ n \in Range(lastSnap.resourceRegistry)
              /\ n \notin options.excludeResources
              /\ options.includeResources = NoList
                   \/ n \in options.includeResources
              /\ Clean(ResourceValue(resources, n))
       /\ \A n \in DOMAIN written : written[n] = ResourceValue(resources, n)
       /\ \A n \in options.excludeResources \cap options.includeResources :
            ~MapHas(written, n)

\* serializeWorldWithResources has left out Time, a serializable resource
\* named in both lists.
C30_Witness ==
  /\ lastSnap.op = "serializeWorldWithResources"
  /\ lastSnap.resourceRegistry = AllResources
  /\ lastSnap.options = Options({"Time"}, {"Time"})
  /\ MapGet(resources, "Time") = "x"
  /\ DOMAIN lastSnap.snapshot.resources = {}

\* C32: despawn(E) on an entity that is not alive, dead or never spawned,
\* returns and leaves the live set and every store as they were; a second
\* despawn(E) changes nothing the first has left.
C32_DespawnIdempotent ==
  [][last'.op = "despawn" =>
       /\ ~exists(entities, last'.e) =>
            /\ entities' = entities
            /\ components' = components
       /\ despawn(entities', components', last'.e) =
            [entities |-> entities', components |-> components']]_vars

\* despawn has just been called with an identifier that was never spawned,
\* in a world where an alive entity has components.
C32_Witness ==
  /\ last.op = "despawn"
  /\ last.e >= nextId
  /\ \E e \in Alive : TypesOf(components, e) # {}

\* C39: has(E, T) holds exactly when get(E, T) returns something other
\* than undefined, after any calls of attach, set, detach and despawn.
C39_HasIffGet ==
  \A e \in Ids, t \in CompNames :
    has(components, e, t) <=> get(components, e, t) # Undefined

\* C36: the two edge indexes agree after any calls of addNode, removeNode,
\* addEdge and removeEdge: A is in parents(B) exactly when B is in
\* children(A), exactly when hasEdge(A, B); incoming(B) lists exactly the
\* edges of edges() that lead to B, each once and with its data.
C36_IndexesAgree ==
  /\ \A A, B \in NodeIds :
       /\ SetHas(parents(G, B), A) <=> SetHas(children(G, A), B)
       /\ SetHas(children(G, A), B) <=> hasEdge(G, A, B)
  /\ \A B \in NodeIds :
       /\ Range(incoming(G, B)) = {e \in edges(G) : e.to = B}
       /\ NoDuplicates(incoming(G, B))

\* removeEdge has returned in a graph where one node has lost its only
\* incoming edge, its set left empty, and another edge is still there.
C36_Witness ==
  /\ lastGraph.op = "removeEdge"
  /\ edges(G) # {}
  /\ \E B \in NodeIds :
       MapHas(incomingEdges, B) /\ incomingEdges[B] = <<>>

\* C37 as stated: B is in descendants(A) exactly when A is in ancestors(B),
\* for all nodes A and B of any graph, A = B included.
C37_Dual ==
  /\ lastGraph.op = "descendants" =>
       \A B \in Range(nodes) :
         SetHas(lastGraph.ret, B) <=> SetHas(ancestors(G, B), lastGraph.a)
  /\ lastGraph.op = "ancestors" =>
       \A A \in Range(nodes) :
         SetHas(lastGraph.ret, A) <=> SetHas(descendants(G, A), lastGraph.a)

\* C37: for different nodes A and B of any graph, B is in descendants(A)
\* exactly when A is in ancestors(B); descendants(A) never holds A, and
\* ancestors(A) holds A exactly when a cycle runs through A.
C37_DualApartFromSelf ==
  /\ lastGraph.op = "descendants" =>
       /\ \A B \in Range(nodes) \ {lastGraph.a} :
            SetHas(lastGraph.ret, B) <=> SetHas(ancestors(G, B), lastGraph.a)
       /\ ~SetHas(lastGraph.ret, lastGraph.a)
  /\ lastGraph.op = "ancestors" =>
       /\ \A A \in Range(nodes) \ {lastGraph.a} :
            SetHas(lastGraph.ret, A) <=> SetHas(descendants(G, A), lastGraph.a)
       /\ SetHas(lastGraph.ret, lastGraph.a) <=>
            lastGraph.a \in Succ(G, Reachable(G, lastGraph.a))

\* ancestors(N) has returned N, on a cycle through another node, and
\* descendants(N) holds that node and not N.
C37_Witness ==
  /\ lastGraph.op = "ancestors"
  /\ SetHas(lastGraph.ret, lastGraph.a)
  /\ descendants(G, lastGraph.a) # <<>>
  /\ ~SetHas(descendants(G, lastGraph.a), lastGraph.a)

\* C34: after deserializeWorld, for every entry of the snapshot and every
\* component name in it that the registry knows, the entity created for the
\* entry has the component with the value the snapshot stores, null
\* included, and never the component's default in its place.
C34_ValuesRestored ==
  (lastSnap.op = "deserializeWorld" /\ ~lastSnap.restored.throws) =>
    LET w == lastSnap.restored.world IN
    \A k \in 1..Len(Listed) :
      \A t \in DOMAIN Listed[k].components \cap
                 Range(lastSnap.componentRegistry) :
        /\ has(w.components, w.entities[k], t)
        /\ get(w.components, w.entities[k], t) = Listed[k].components[t]

\* C38: serializeWorld and serializeWorldWithResources leave the live
\* entities, the component stores and the resource store of the world as
\* they were, and create no resource entry.
C38_SerializationReadOnly ==
  [][(/\ lastSnap' # lastSnap
      /\ lastSnap'.op \in {"serializeWorld", "serializeWorldWithResources"}) =>
       /\ entities' = entities
       /\ components' = components
       /\ resources' = resources
       /\ DOMAIN resources' \subseteq DOMAIN resources]_vars

\* System i is registered with a frequency.
Capped(i) == i <= Len(systems) /\ systems[i].frequency # NoCap

\* C35: while tick is called again and again and the clock advances, every
\* registered system with a frequency is executed by a tick again and
\* again, whatever the names and frequencies of the other systems.
C35_NoStarvation ==
  \A i \in 1..MaxSystems :
    []<>(Capped(i) => (last.op = "tick" /\ i \in Executed(ran)))

\* C33: a run of InputSystem leaves the just-pressed and the just-released
\* set empty and the held keys, the mouse position and the held buttons as
\* they were; and a key wasKeyPressed reports during a tick was pressed
\* since the run of InputSystem before.
C33_InputSystemClears ==
  [][/\ lastInput'.op = "InputSystem" =>
          /\ input'.keysJustPressed = {}
          /\ input'.keysJustReleased = {}
          /\ input'.keys = input.keys
          /\ input'.mouse = input.mouse
          /\ input'.mouseButtons = input.mouseButtons
     /\ (lastInput'.op = "wasKeyPressed" /\ lastInput'.ret) =>
          lastInput'.key \in lastInput.pressed
     /\ (lastInput'.op = "wasKeyPressed" /\ ~lastInput'.cleared) =>
          (lastInput'.ret <=> lastInput'.key \in lastInput.pressed)]_vars

\* InputSystem has run and cleared a key, while a key and a mouse button
\* are held and the mouse is away from the origin.
C33_Witness ==
  /\ lastInput.op = "InputSystem"
  /\ lastInput.ret
  /\ input.keys # {}
  /\ input.mouseButtons # {}
  /\ input.mouse.x # 0

====
